---- MODULE Spec2Model ----
(***************************************************************************)
(* Model of the orchestration engine of elba-docker/automation:            *)
(*   execution/control.py  stop flag and broadcast wait                    *)
(*   execution/retry.py    the retry cursor                                *)
(*   execution/test.py     TestExecutionThread (the remote lifecycle)      *)
(*   run.py                run / conduct_test / join_then_quit,            *)
(*                         flatten_tests and assign_hosts                  *)
(*   execution/cloudlab.py provision, with the login nested in it          *)
(*                                                                         *)
(* The specifications share the variables:                                 *)
(*   Spec          the coordinator (run), its lifecycle threads, the       *)
(*                 cloudlab_lock guard and the SIGINT handlers;            *)
(*   SpecFair      Spec without SIGINT, under weak fairness;               *)
(*   SpecRetry     one retry cursor driven by an arbitrary loop body,      *)
(*                 with stop() called at any moment;                       *)
(*   SpecExecute   TestExecutionThread.execute;                            *)
(*   SpecProvision Cloudlab.provision up to the hosts conduct_test takes;  *)
(*   SpecProvisionFair  SpecProvision under weak fairness of its thread;   *)
(*   SpecExpand    flatten_tests on a drawn configuration;                 *)
(*   SpecAssign    assign_hosts on a drawn config.sh and host list.        *)
(***************************************************************************)
EXTENDS Integers, Sequences, FiniteSets, TLC

VARIABLES
    stopping,        \* control.stopping (control.py:8)
    stopRequested,   \* history: control.stop() has been called
    waiting,         \* units blocked in control.wait (term_cond.wait)
    notified,        \* units whose current/last wait was woken by stop()
    \* ---- SpecRetry: one cursor under test
    rc,              \* the retry object
    rcPc,            \* where the for-loop over the cursor is
    rcYielded,       \* history: number of handles __next__ has returned
    rcDelay,         \* last retry_delay computed (scaled by FactorDen)
    \* ---- Spec: run.py / test.py
    max_concurrency, \* run.py:140
    mainPc,          \* position of the coordinating thread in run/conduct_test
    testIdx,         \* index of `test` in `tests` (run.py:142)
    current,         \* the retry cursor of run.py:145
    thread_queue,    \* run.py:31
    threads,         \* every TestExecutionThread started so far
    cloudlab_lock,   \* run.py:33: the set of units holding the lock
    cloudlab_logger, \* cloudlab.logger
    old_logger,      \* conduct_test's local old_logger
    experiment,      \* conduct_test's local experiment (0: unbound)
    experiments,     \* every experiment provision() has returned
    sigPc,           \* position of the SIGINT handler running on the main thread
    joinIdx,         \* join_all's loop index
    exitVia,         \* how the main thread left run(): "none", "return", "quit"
    \* ---- SpecExecute: TestExecutionThread.execute of one lifecycle
    exPc,            \* position inside execute
    exCurrent,       \* the retry cursor of test.py:215
    exStep,          \* the inner step: terminal, clone, copy, cd, script
    exInner,         \* the retry cursor of terminal / run_sequence
    exSsh,           \* the pxssh object bound to `ssh`: none, new, open, closed
    exAttempts,      \* history: handles the cursor of test.py:215 has yielded
    exSshAttempt,    \* history: the attempt in which `ssh` was created
    exOpen,          \* history: sessions logged in and neither closed nor logged out
    \* ---- SpecProvision: Cloudlab.provision with its nested login
    pvPc,            \* position inside provision / login
    pvCurrent,       \* the retry cursor of cloudlab.py:157
    pvLogin,         \* the retry cursor of cloudlab.py:62
    pvAuthenticated, \* Cloudlab._authenticated
    pvSite,          \* which call of login is active: 0 none, 1 cloudlab.py:160, 2 cloudlab.py:173
    pvExitRaised,    \* history: ExitEarly was raised inside provision
    pvThen,          \* where provision goes on after safe_terminate returns
    pvExperiment,    \* number of ProvisionedExperiments made by this call;
                     \* the last one is the `experiment` of the attempt
    pvStatus,        \* provision's local `status`
    pvSeen,          \* history: statuses read for the current experiment
    pvTerminated,    \* history: safe_terminate calls for the experiment
    pvReported,      \* history: a failure was recorded for the experiment
    pvHostnames,     \* hostnames of the Experiment provision returned
    executor_host,   \* conduct_test's local (run.py:210)
    experiment_hosts, \* conduct_test's local (run.py:211)
    xpPc,            \* position in flatten_tests
    xpConfig,        \* config: its tests, its options, the files of results/
    xpGlobals,       \* `flattened` after flatten_globals
    xpMatrices,      \* `flattened` after flatten_matrices
    xpReplicas,      \* `flattened` after flatten_replicas
    asPc,            \* position around the call of assign_hosts
    config_sh,       \* assign_hosts' parameter: the lines of config.sh
    hosts,           \* assign_hosts' parameter
    assignments,     \* assign_hosts' local
    hostname_options, \* conduct_test's local (run.py:212)
    asLog            \* what run logged for the exception it caught

retryVars == <<rc, rcPc, rcYielded, rcDelay>>
ctlVars == <<stopping, stopRequested, waiting, notified>>
sysVars == <<max_concurrency, mainPc, testIdx, current, thread_queue, threads,
             cloudlab_lock, cloudlab_logger, old_logger, experiment,
             experiments, sigPc, joinIdx, exitVia>>
execVars == <<exPc, exCurrent, exStep, exInner, exSsh, exAttempts,
              exSshAttempt, exOpen>>
provVars == <<pvPc, pvCurrent, pvLogin, pvAuthenticated, pvSite, pvExitRaised,
              pvThen, pvExperiment, pvStatus, pvSeen, pvTerminated,
              pvReported, pvHostnames, executor_host, experiment_hosts>>
pollVars == <<pvThen, pvExperiment, pvStatus, pvSeen, pvTerminated,
              pvReported, pvHostnames, executor_host, experiment_hosts>>
expandVars == <<xpPc, xpConfig, xpGlobals, xpMatrices, xpReplicas>>
assignVars == <<asPc, config_sh, hosts, assignments, hostname_options, asLog>>
pureVars == <<expandVars, assignVars>>
unitVars == <<execVars, provVars, pureVars>>
vars == <<stopping, stopRequested, waiting, notified, rc, rcPc, rcYielded,
          rcDelay, max_concurrency, mainPc, testIdx, current, thread_queue,
          threads, cloudlab_lock, cloudlab_logger, old_logger, experiment,
          experiments, sigPc, joinIdx, exitVia, exPc,
          exCurrent, exStep, exInner, exSsh, exAttempts, exSshAttempt, exOpen,
          pvPc, pvCurrent, pvLogin, pvAuthenticated, pvSite, pvExitRaised,
          pvThen, pvExperiment, pvStatus, pvSeen, pvTerminated, pvReported,
          pvHostnames, executor_host, experiment_hosts, xpPc, xpConfig,
          xpGlobals, xpMatrices, xpReplicas, asPc, config_sh, hosts,
          assignments, hostname_options, asLog>>

----------------------------------------------------------------------------
(* Bounds of the model *)

\* number of TestReplicas in `tests`
NumTests == 2
\* largest max_concurrency drawn
MaxConcurrency == 2
\* number of experiments the portal grants over the run: provision() fails
\* once that many were instantiated
MaxExperiments == 2
\* largest retry_count drawn for the cursor of SpecRetry
MaxRetryCount == 4
\* largest backoff_duration drawn for the cursor of SpecRetry
MaxBackoff == 2
\* largest number of dimensions of a matrix drawn
MaxDimensions == 2
\* largest small replica count drawn
MaxReplicas == 2
\* the replica count drawn that has three digits
ManyReplicas == 100
\* largest number of lines of config.sh drawn
MaxLines == 4
\* largest number of hosts handed to assign_hosts
MaxHosts == 7
\* how many times a caller advances a cursor again after it raised
MaxAgain == 2

(* Program constants *)

\* retry(task=..., retry_count=5) in run (run.py:145)
RunRetryCount == 5
\* default backoff_duration of retry (retry.py:30)
DefaultBackoff == 60
\* BackoffPolicy factor=0.5 is FactorNum / FactorDen (retry.py:17, retry.py:22)
FactorNum == 1
FactorDen == 2

None == "None"
MainUnit == 0

----------------------------------------------------------------------------
(* execution/retry.py *)

\* a QUADRATIC policy that grows with the index instead of its square
BackoffPolicy_linear(policy, index, backoff_duration) ==
    CASE policy = "CONSTANT"  -> backoff_duration * FactorDen
      [] policy = "LINEAR"    -> backoff_duration * (FactorDen + FactorNum * index)
      [] policy = "QUADRATIC" -> backoff_duration * (FactorDen + FactorNum * index)

\* BackoffPolicy.CONSTANT / LINEAR(factor) / QUADRATIC(factor); the result is
\* the delay multiplied by FactorDen, so that factor = 1/2 stays an integer.
BackoffPolicy(policy, index, backoff_duration) ==
    CASE policy = "CONSTANT"  -> backoff_duration * FactorDen
      [] policy = "LINEAR"    -> backoff_duration * (FactorDen + FactorNum * index)
      [] policy = "QUADRATIC" -> backoff_duration * (FactorDen + FactorNum * index * index)

\* retry.__init__
retry(retry_count, backoff_duration, backoff_policy) ==
    [retry_count |-> retry_count, backoff_policy |-> backoff_policy,
     backoff_duration |-> backoff_duration, index |-> -1,
     failure_msg |-> None, cause |-> None]

\* retry.failed(message, cause): values are None, "str" (a text) or "exc" (an
\* Exception instance)
failed(c, message, cause) ==
    IF message # None /\ cause = None /\ message = "exc"
    THEN [c EXCEPT !.cause = message]
    ELSE [c EXCEPT !.failure_msg = message, !.cause = cause]

\* the exhaustion test of retry.__next__ on the incremented index
Exhausted_gt(index, retry_count) == index > retry_count

\* an exhaustion test that holds on the last index only
Exhausted_eq(index, retry_count) == index = retry_count

Exhausted(index, retry_count) == index >= retry_count

\* an advance that keeps the recorded failure while it waits
retry_next_keep(c) ==
    LET i == c.index + 1 IN
    IF Exhausted(i, c.retry_count)
    THEN [cursor |-> [c EXCEPT !.index = i], result |-> "OperationFailed", delay |-> 0]
    ELSE IF i # 0
    THEN [cursor |-> [c EXCEPT !.index = i],
          result |-> "wait",
          delay |-> BackoffPolicy(c.backoff_policy, i, c.backoff_duration)]
    ELSE [cursor |-> [c EXCEPT !.index = i], result |-> "return", delay |-> 0]

\* retry.__next__ up to its wait: the cursor after the call and what the call
\* does next: raise OperationFailed, block in wait(retry_delay), or return self
retry_next(c) ==
    LET i == c.index + 1 IN
    IF Exhausted(i, c.retry_count)
    THEN [cursor |-> [c EXCEPT !.index = i], result |-> "OperationFailed", delay |-> 0]
    ELSE IF i # 0
    THEN [cursor |-> [c EXCEPT !.index = i, !.failure_msg = None, !.cause = None],
          result |-> "wait",
          delay |-> BackoffPolicy(c.backoff_policy, i, c.backoff_duration)]
    ELSE [cursor |-> [c EXCEPT !.index = i], result |-> "return", delay |-> 0]

----------------------------------------------------------------------------
(* execution/control.py *)

\* wait(delay): the value returned once term_cond.wait is over
wait_result == stopping

\* stop(): notify_all wakes every unit blocked in term_cond.wait; the module's
\* stopping flag is not assigned
stop ==
    /\ stopRequested' = TRUE
    /\ notified' = notified \cup waiting
    /\ UNCHANGED <<stopping, waiting>>

----------------------------------------------------------------------------
(* SpecRetry: `for current in retry(...)` with an arbitrary body *)

\* rcPc: "start"  the for statement has not called __next__ yet
\*       "body"   a handle was returned and the loop body runs
\*       "waiting" __next__ is blocked in wait(retry_delay)
\*       "OperationFailed" / "ExitEarly"  __next__ raised
\*       "returned" the body returned (success)

\* the for statement calls __next__ (retry.py:75-119)
RcNext ==
    /\ rcPc \in {"start", "body"}
    /\ LET r == retry_next(rc) IN
        /\ rc' = r.cursor
        /\ rcDelay' = IF r.result = "wait" THEN r.delay ELSE rcDelay
        /\ CASE r.result = "OperationFailed" ->
                  /\ rcPc' = "OperationFailed"
                  /\ UNCHANGED <<rcYielded, waiting, notified>>
             [] r.result = "wait" ->
                  /\ rcPc' = "waiting"
                  /\ waiting' = waiting \cup {MainUnit}
                  /\ notified' = notified \ {MainUnit}
                  /\ UNCHANGED rcYielded
             [] r.result = "return" ->
                  /\ rcPc' = "body"
                  /\ rcYielded' = rcYielded + 1
                  /\ UNCHANGED <<waiting, notified>>
    /\ UNCHANGED <<stopping, stopRequested>>
    /\ UNCHANGED <<sysVars, unitVars>>

\* a caller that kept the cursor calls __next__ again after it raised
\* OperationFailed (retry.py:75-119): the index is incremented once more
RcAgain ==
    /\ rcPc = "OperationFailed"
    /\ rc.index < rc.retry_count + MaxAgain
    /\ LET r == retry_next(rc) IN
        /\ rc' = r.cursor
        /\ rcDelay' = IF r.result = "wait" THEN r.delay ELSE rcDelay
        /\ CASE r.result = "OperationFailed" ->
                  /\ rcPc' = "OperationFailed"
                  /\ UNCHANGED <<rcYielded, waiting, notified>>
             [] r.result = "wait" ->
                  /\ rcPc' = "waiting"
                  /\ waiting' = waiting \cup {MainUnit}
                  /\ notified' = notified \ {MainUnit}
                  /\ UNCHANGED rcYielded
             [] r.result = "return" ->
                  /\ rcPc' = "body"
                  /\ rcYielded' = rcYielded + 1
                  /\ UNCHANGED <<waiting, notified>>
    /\ UNCHANGED <<stopping, stopRequested>>
    /\ UNCHANGED <<sysVars, unitVars>>

\* wait(retry_delay) returns, by timeout or by notify_all (retry.py:120-124)
RcWaitReturn ==
    /\ rcPc = "waiting"
    /\ waiting' = waiting \ {MainUnit}
    /\ IF wait_result
       THEN rcPc' = "ExitEarly" /\ UNCHANGED rcYielded
       ELSE rcPc' = "body" /\ rcYielded' = rcYielded + 1
    /\ UNCHANGED <<rc, rcDelay, stopping, stopRequested, notified>>
    /\ UNCHANGED <<sysVars, unitVars>>

\* the body reports the attempt: current.failed(message, cause)
RcFailed(message, cause) ==
    /\ rcPc = "body"
    /\ rc' = failed(rc, message, cause)
    /\ UNCHANGED <<rcPc, rcYielded, rcDelay>>
    /\ UNCHANGED ctlVars
    /\ UNCHANGED <<sysVars, unitVars>>

\* the body returns without another advance
RcReturn ==
    /\ rcPc = "body"
    /\ rcPc' = "returned"
    /\ UNCHANGED <<rc, rcYielded, rcDelay>>
    /\ UNCHANGED ctlVars
    /\ UNCHANGED <<sysVars, unitVars>>

\* another thread calls control.stop()
RcStop ==
    /\ ~stopRequested
    /\ stop
    /\ UNCHANGED retryVars
    /\ UNCHANGED <<sysVars, unitVars>>

----------------------------------------------------------------------------
(* Spec: units, loggers, the guard *)

\* the process-wide default logger (log.py:195), the logger run makes for a
\* test (run.py:143) and the one a TestExecutionThread makes (test.py:71)
log == <<"log", 0>>
TestLogger(i) == <<"test", i>>
ThreadLogger(t) == <<"thread", t>>

Threads == 1..Len(threads)

\* TestExecutionThread.run has returned (or the thread died): join() returns
FinishedPcs == {"done", "failed", "early", "crashed"}
Finished(t) == threads[t].pc \in FinishedPcs

\* threading.Lock: acquire blocks while the lock is held
LockFree_always == TRUE

LockFree == cloudlab_lock = {}

\* the coordinating thread executes run()'s own code only while no signal
\* handler runs on top of it
MainRuns == sigPc = "none"

\* results of an operation wrapped in a retry cursor (transfer, execute):
\* it returns, its cursor raises OperationFailed, or a backoff wait
\* observes stopping and raises ExitEarly
RetriedOutcomes ==
    {"ok", "OperationFailed"} \cup (IF wait_result THEN {"ExitEarly"} ELSE {})

\* results of a call on the Cloudlab driver: as above, or a selenium
\* exception the driver does not catch. The driver is a collaborator behind
\* login / provision / terminate: a call is modelled by how it can end.
\* (run.py:118 and run.py:190 pass arguments that cloudlab.py:48 and
\* cloudlab.py:154 do not declare; the calls are taken as the interface
\* intends them, with "Exception" covering a call that raises at once.)
DriverOutcomes == RetriedOutcomes \cup {"Exception"}

\* `for test in tests` moves to the next test
NextTest_skip ==
    /\ testIdx' = testIdx + 2
    /\ mainPc' = "for_test"

NextTest ==
    /\ testIdx' = testIdx + 1
    /\ mainPc' = "for_test"

\* `except Exception` of the test loop logs and lets the for statement take
\* the next test (run.py:156-159)
OnConductException_abort ==
    /\ mainPc' = "returned"
    /\ UNCHANGED testIdx

OnConductException == NextTest

\* if conduct_test(...): break (run.py:151-153): True leaves the retry loop,
\* False lets the for statement call current.__next__ again
ConductResult(r) ==
    IF r
    THEN NextTest
    ELSE mainPc' = "retry_next" /\ UNCHANGED testIdx

\* what conduct_test returns when the experiment directory or conf/config.sh
\* is missing (run.py:167-174)
MissingResult_false == FALSE

MissingResult == TRUE

\* what conduct_test returns after it started the lifecycle (run.py:253-255)
StartedResult_false == FALSE

StartedResult == TRUE

\* run() returns
RunReturns ==
    /\ mainPc' = "returned"
    /\ exitVia' = "return"

----------------------------------------------------------------------------
(* run.py: run *)

\* with cloudlab_lock: (run.py:121)
LoginAcquire ==
    /\ MainRuns /\ mainPc = "login_lock"
    /\ LockFree
    /\ cloudlab_lock' = cloudlab_lock \cup {MainUnit}
    /\ mainPc' = "login"
    /\ UNCHANGED <<max_concurrency, testIdx, current, thread_queue, threads,
                   cloudlab_logger, old_logger, experiment, experiments,
                   sigPc, joinIdx, exitVia>>
    /\ UNCHANGED ctlVars /\ UNCHANGED <<retryVars, unitVars>>

\* cloudlab.login() returns or raises (run.py:122-138)
LoginReturn(outcome) ==
    /\ MainRuns /\ mainPc = "login"
    /\ outcome \in DriverOutcomes
    /\ cloudlab_lock' = cloudlab_lock \ {MainUnit}
    /\ IF outcome = "ok"
       THEN mainPc' = "for_test" /\ UNCHANGED exitVia
       ELSE RunReturns
    /\ UNCHANGED <<max_concurrency, testIdx, current, thread_queue, threads,
                   cloudlab_logger, old_logger, experiment, experiments,
                   sigPc, joinIdx>>
    /\ UNCHANGED ctlVars /\ UNCHANGED <<retryVars, unitVars>>

\* for test in tests: ... retry(task=..., retry_count=5) (run.py:142-145)
ForTest ==
    /\ MainRuns /\ mainPc = "for_test"
    /\ IF testIdx > NumTests
       THEN RunReturns /\ UNCHANGED current
       ELSE /\ current' = retry(RunRetryCount, DefaultBackoff, "QUADRATIC")
            /\ mainPc' = "retry_next"
            /\ UNCHANGED exitVia
    /\ UNCHANGED <<max_concurrency, testIdx, thread_queue, threads,
                   cloudlab_lock, cloudlab_logger, old_logger, experiment,
                   experiments, sigPc, joinIdx>>
    /\ UNCHANGED ctlVars /\ UNCHANGED <<retryVars, unitVars>>

\* the for statement of run.py:145 calls current.__next__; OperationFailed
\* is caught by `except Exception` (run.py:156) and the next test is taken
RetryNext ==
    /\ MainRuns /\ mainPc = "retry_next"
    /\ LET r == retry_next(current) IN
        /\ current' = r.cursor
        /\ CASE r.result = "OperationFailed" ->
                  OnConductException /\ UNCHANGED <<waiting, notified>>
             [] r.result = "wait" ->
                  /\ mainPc' = "backoff"
                  /\ waiting' = waiting \cup {MainUnit}
                  /\ notified' = notified \ {MainUnit}
                  /\ UNCHANGED testIdx
             [] r.result = "return" ->
                  /\ mainPc' = "join_loop"
                  /\ UNCHANGED <<testIdx, waiting, notified>>
    /\ UNCHANGED <<max_concurrency, thread_queue, threads, cloudlab_lock,
                   cloudlab_logger, old_logger, experiment, experiments,
                   sigPc, joinIdx, exitVia>>
    /\ UNCHANGED <<stopping, stopRequested>> /\ UNCHANGED <<retryVars, unitVars>>

\* wait(retry_delay) of the cursor returns (retry.py:120-124); ExitEarly is
\* caught at run.py:154 and run returns
BackoffReturn ==
    /\ MainRuns /\ mainPc = "backoff"
    /\ waiting' = waiting \ {MainUnit}
    /\ IF wait_result
       THEN RunReturns
       ELSE mainPc' = "join_loop" /\ UNCHANGED exitVia
    /\ UNCHANGED <<max_concurrency, testIdx, current, thread_queue, threads,
                   cloudlab_lock, cloudlab_logger, old_logger, experiment,
                   experiments, sigPc, joinIdx>>
    /\ UNCHANGED <<stopping, stopRequested, notified>> /\ UNCHANGED <<retryVars, unitVars>>

\* while len(thread_queue) >= max_concurrency (run.py:147)
AtCapacity_gt == Len(thread_queue) > max_concurrency

AtCapacity == Len(thread_queue) >= max_concurrency

\* thread_queue[0].join(); thread_queue.pop(0) (run.py:148-149)
JoinOldest ==
    /\ MainRuns /\ mainPc = "join_loop"
    /\ AtCapacity
    /\ thread_queue # << >>
    /\ Finished(Head(thread_queue))
    /\ thread_queue' = Tail(thread_queue)
    /\ UNCHANGED <<max_concurrency, mainPc, testIdx, current, threads,
                   cloudlab_lock, cloudlab_logger, old_logger, experiment,
                   experiments, sigPc, joinIdx, exitVia>>
    /\ UNCHANGED ctlVars /\ UNCHANGED <<retryVars, unitVars>>

----------------------------------------------------------------------------
(* run.py: conduct_test *)

\* the loop of run.py:147 is left and conduct_test runs up to its stop check
\* (run.py:162-184); dirOk / configOk: the path.exists tests
ConductTest(dirOk, configOk) ==
    /\ MainRuns /\ mainPc = "join_loop"
    /\ ~AtCapacity
    /\ IF ~dirOk \/ ~configOk
       THEN mainPc' = "missing" /\ UNCHANGED <<testIdx, exitVia>>
       ELSE IF stopping
       THEN RunReturns /\ UNCHANGED testIdx             \* raise ExitEarly
       ELSE mainPc' = "provision_lock" /\ UNCHANGED <<testIdx, exitVia>>
    /\ UNCHANGED <<max_concurrency, current, thread_queue, threads,
                   cloudlab_lock, cloudlab_logger, old_logger, experiment,
                   experiments, sigPc, joinIdx>>
    /\ UNCHANGED ctlVars /\ UNCHANGED <<retryVars, unitVars>>

\* logger.error(... not found); return True (run.py:168-169, 173-174) and the
\* test of the result at run.py:151
ConductMissing ==
    /\ MainRuns /\ mainPc = "missing"
    /\ ConductResult(MissingResult)
    /\ UNCHANGED <<max_concurrency, current, thread_queue, threads,
                   cloudlab_lock, cloudlab_logger, old_logger, experiment,
                   experiments, sigPc, joinIdx, exitVia>>
    /\ UNCHANGED ctlVars /\ UNCHANGED <<retryVars, unitVars>>

\* with cloudlab_lock: old_logger = cloudlab.logger; cloudlab.set_logger(logger)
\* and cloudlab.provision is entered (run.py:185-190)
ProvisionAcquire ==
    /\ MainRuns /\ mainPc = "provision_lock"
    /\ LockFree
    /\ cloudlab_lock' = cloudlab_lock \cup {MainUnit}
    /\ old_logger' = cloudlab_logger
    /\ cloudlab_logger' = TestLogger(testIdx)
    /\ mainPc' = "provisioning"
    /\ UNCHANGED <<max_concurrency, testIdx, current, thread_queue, threads,
                   experiment, experiments, sigPc, joinIdx, exitVia>>
    /\ UNCHANGED ctlVars /\ UNCHANGED <<retryVars, unitVars>>

\* the finally clause of conduct_test (run.py:205-206)
ProvisionFinally_skip(lg) == cloudlab_logger

ProvisionFinally(lg) == lg

\* cloudlab.provision returns an Experiment or raises (run.py:190-206)
ProvisionReturn(outcome) ==
    /\ MainRuns /\ mainPc = "provisioning"
    /\ outcome \in DriverOutcomes
    /\ outcome = "ok" => Len(experiments) < MaxExperiments
    /\ cloudlab_logger' = ProvisionFinally(old_logger)
    /\ cloudlab_lock' = cloudlab_lock \ {MainUnit}
    /\ CASE outcome = "ok" ->
              /\ experiments' = Append(experiments,
                                       [status |-> "live", terminate_calls |-> 0])
              /\ experiment' = Len(experiments) + 1
              /\ mainPc' = "render"
              /\ UNCHANGED <<current, exitVia>>
         [] outcome = "ExitEarly" ->
              RunReturns /\ UNCHANGED <<current, experiment, experiments>>
         [] outcome \in {"OperationFailed", "Exception"} ->
              /\ current' = failed(current, "exc", None)
              /\ mainPc' = "retry_next"                 \* return False
              /\ UNCHANGED <<experiment, experiments, exitVia>>
    /\ UNCHANGED <<max_concurrency, testIdx, thread_queue, threads,
                   old_logger, sigPc, joinIdx>>
    /\ UNCHANGED ctlVars /\ UNCHANGED <<retryVars, unitVars>>

\* assign_hosts, the substitutions and the write of the rendered config
\* (run.py:208-242). assignOk: assign_hosts returns (it raises when no host
\* field matches or no host is left, caught at run.py:156); writeOk: no
\* IOError on the write (else current.failed(ex); return False)
RenderConfig(assignOk, writeOk) ==
    /\ MainRuns /\ mainPc = "render"
    /\ IF ~assignOk
       THEN OnConductException /\ experiment' = 0 /\ UNCHANGED current
       ELSE IF ~writeOk
       THEN /\ current' = failed(current, "exc", None)
            /\ mainPc' = "retry_next"
            /\ experiment' = 0
            /\ UNCHANGED testIdx
       ELSE mainPc' = "start" /\ UNCHANGED <<testIdx, current, experiment>>
    /\ UNCHANGED <<max_concurrency, thread_queue, threads, cloudlab_lock,
                   cloudlab_logger, old_logger, experiments, sigPc, joinIdx,
                   exitVia>>
    /\ UNCHANGED ctlVars /\ UNCHANGED <<retryVars, unitVars>>

\* test_thread = TestExecutionThread(...); test_thread.start() (run.py:248-253)
StartThread ==
    /\ MainRuns /\ mainPc = "start"
    /\ threads' = Append(threads, [test |-> testIdx, pc |-> "setup",
                                   experiment |-> experiment,
                                   old_logger |-> log])
    /\ mainPc' = "append"
    /\ UNCHANGED <<max_concurrency, testIdx, current, thread_queue,
                   cloudlab_lock, cloudlab_logger, old_logger, experiment,
                   experiments, sigPc, joinIdx, exitVia>>
    /\ UNCHANGED ctlVars /\ UNCHANGED <<retryVars, unitVars>>

\* thread_queue.append(test_thread); return True; break (run.py:254-255, 153)
AppendThread ==
    /\ MainRuns /\ mainPc = "append"
    /\ thread_queue' = Append(thread_queue, Len(threads))
    /\ experiment' = 0
    /\ ConductResult(StartedResult)
    /\ UNCHANGED <<max_concurrency, current, threads, cloudlab_lock,
                   cloudlab_logger, old_logger, experiments, sigPc, joinIdx,
                   exitVia>>
    /\ UNCHANGED ctlVars /\ UNCHANGED <<retryVars, unitVars>>

----------------------------------------------------------------------------
(* execution/test.py: TestExecutionThread *)

\* thread t moves to pc
Goto(t, pc) == threads' = [threads EXCEPT ![t].pc = pc]

\* run(): what becomes of the thread when a stage raises (test.py:197-200)
Raised_swallow(outcome) == "teardown"

Raised_reraise(outcome) == "crashed"

Raised(outcome) == IF outcome = "ExitEarly" THEN "early" ELSE "failed"

\* self.setup(): two transfers with retry_count=10 (test.py:188, 202-212)
Setup(t, outcome) ==
    /\ t \in Threads /\ threads[t].pc = "setup"
    /\ outcome \in RetriedOutcomes
    /\ Goto(t, IF outcome = "ok" THEN "execute" ELSE Raised(outcome))
    /\ UNCHANGED <<max_concurrency, mainPc, testIdx, current, thread_queue,
                   cloudlab_lock, cloudlab_logger, old_logger, experiment,
                   experiments, sigPc, joinIdx, exitVia>>
    /\ UNCHANGED ctlVars /\ UNCHANGED <<retryVars, unitVars>>

\* self.execute(): the outer 5-attempt cursor around the session steps
\* (test.py:191, 214-274)
Execute(t, outcome) ==
    /\ t \in Threads /\ threads[t].pc = "execute"
    /\ outcome \in RetriedOutcomes
    /\ Goto(t, IF outcome = "ok" THEN "teardown" ELSE Raised(outcome))
    /\ UNCHANGED <<max_concurrency, mainPc, testIdx, current, thread_queue,
                   cloudlab_lock, cloudlab_logger, old_logger, experiment,
                   experiments, sigPc, joinIdx, exitVia>>
    /\ UNCHANGED ctlVars /\ UNCHANGED <<retryVars, unitVars>>

\* teardown(): the transfer of the results archive, retry_count=5
\* (test.py:276-280)
TeardownTransfer(t, outcome) ==
    /\ t \in Threads /\ threads[t].pc = "teardown"
    /\ outcome \in RetriedOutcomes
    /\ Goto(t, IF outcome = "ok" THEN "stop_check" ELSE Raised(outcome))
    /\ UNCHANGED <<max_concurrency, mainPc, testIdx, current, thread_queue,
                   cloudlab_lock, cloudlab_logger, old_logger, experiment,
                   experiments, sigPc, joinIdx, exitVia>>
    /\ UNCHANGED ctlVars /\ UNCHANGED <<retryVars, unitVars>>

\* if stopping: return (test.py:282-284)
TeardownStopCheck(t) ==
    /\ t \in Threads /\ threads[t].pc = "stop_check"
    /\ Goto(t, IF stopping THEN "done" ELSE "lock_wait")
    /\ UNCHANGED <<max_concurrency, mainPc, testIdx, current, thread_queue,
                   cloudlab_lock, cloudlab_logger, old_logger, experiment,
                   experiments, sigPc, joinIdx, exitVia>>
    /\ UNCHANGED ctlVars /\ UNCHANGED <<retryVars, unitVars>>

\* with self._cloudlab_lock: old_logger = ...; set_logger(self.logger) and
\* cloudlab.terminate(self._experiment) is entered (test.py:287-291)
TeardownAcquire(t) ==
    /\ t \in Threads /\ threads[t].pc = "lock_wait"
    /\ LockFree
    /\ cloudlab_lock' = cloudlab_lock \cup {t}
    /\ threads' = [threads EXCEPT ![t].pc = "terminating",
                                  ![t].old_logger = cloudlab_logger]
    /\ cloudlab_logger' = ThreadLogger(t)
    /\ experiments' = [experiments EXCEPT ![threads[t].experiment].terminate_calls = @ + 1]
    /\ UNCHANGED <<max_concurrency, mainPc, testIdx, current, thread_queue,
                   old_logger, experiment, sigPc, joinIdx, exitVia>>
    /\ UNCHANGED ctlVars /\ UNCHANGED <<retryVars, unitVars>>

\* the except clauses around terminate (test.py:292-297): where teardown is
\* after terminate ended with outcome
AfterTerminate_narrow(outcome) ==
    IF outcome = "Exception" THEN "crashed" ELSE "cooldown"

AfterTerminate(outcome) == "cooldown"

\* the finally clause of teardown (test.py:298-299)
TeardownFinally_skip(outcome, lg) == IF outcome = "ok" THEN lg ELSE cloudlab_logger

TeardownFinally(outcome, lg) == lg

\* cloudlab.terminate returns or raises; the lock is released and, when
\* nothing propagates, wait(backoff_dur * 60) is entered (test.py:291-304).
\* experiments[e].terminate_calls counts the calls of terminate on e (set at
\* TeardownAcquire); status becomes "terminated" when a call succeeds
TeardownTerminate(t, outcome) ==
    /\ t \in Threads /\ threads[t].pc = "terminating"
    /\ outcome \in {"ok", "OperationFailed", "Exception"}
    /\ experiments' = IF outcome = "ok"
                      THEN [experiments EXCEPT ![threads[t].experiment].status = "terminated"]
                      ELSE experiments
    /\ cloudlab_logger' = TeardownFinally(outcome, threads[t].old_logger)
    /\ cloudlab_lock' = cloudlab_lock \ {t}
    /\ Goto(t, AfterTerminate(outcome))
    /\ IF AfterTerminate(outcome) = "cooldown"
       THEN waiting' = waiting \cup {t} /\ notified' = notified \ {t}
       ELSE UNCHANGED <<waiting, notified>>
    /\ UNCHANGED <<max_concurrency, mainPc, testIdx, current, thread_queue,
                   old_logger, experiment, sigPc, joinIdx, exitVia>>
    /\ UNCHANGED <<stopping, stopRequested>> /\ UNCHANGED <<retryVars, unitVars>>

\* wait(backoff_dur * 60) returns, by timeout or by notify_all; teardown
\* raises ExitEarly when it reports stopping (test.py:304-305)
CooldownReturn(t) ==
    /\ t \in Threads /\ threads[t].pc = "cooldown"
    /\ waiting' = waiting \ {t}
    /\ Goto(t, IF wait_result THEN "early" ELSE "done")
    /\ UNCHANGED <<max_concurrency, mainPc, testIdx, current, thread_queue,
                   cloudlab_lock, cloudlab_logger, old_logger, experiment,
                   experiments, sigPc, joinIdx, exitVia>>
    /\ UNCHANGED <<stopping, stopRequested, notified>> /\ UNCHANGED <<retryVars, unitVars>>

----------------------------------------------------------------------------
(* run.py: the SIGINT handlers, join_all, join_then_quit *)

\* SIGINT is delivered to the main thread while run() executes:
\* exit_gracefully installs force_handler and prompts (run.py:484-488)
ExitGracefully ==
    /\ sigPc = "none"
    /\ mainPc \notin {"returned", "exited"}
    /\ sigPc' = "prompt"
    /\ UNCHANGED <<max_concurrency, mainPc, testIdx, current, thread_queue,
                   threads, cloudlab_lock, cloudlab_logger, old_logger,
                   experiment, experiments, joinIdx, exitVia>>
    /\ UNCHANGED ctlVars /\ UNCHANGED <<retryVars, unitVars>>

\* join_then_quit begins: stop(), then join_all's loop (run.py:473-475)
JoinThenQuit ==
    /\ stop
    /\ sigPc' = "join_all"
    /\ joinIdx' = 1

\* the prompt is answered (run.py:488-495)
PromptAnswer(yes) ==
    /\ sigPc = "prompt"
    /\ IF yes
       THEN JoinThenQuit
       ELSE sigPc' = "none" /\ UNCHANGED joinIdx /\ UNCHANGED ctlVars
    /\ UNCHANGED <<max_concurrency, mainPc, testIdx, current, thread_queue,
                   threads, cloudlab_lock, cloudlab_logger, old_logger,
                   experiment, experiments, exitVia>>
    /\ UNCHANGED <<retryVars, unitVars>>

\* a second SIGINT while the prompt is outstanding: the handler installed at
\* run.py:485, force_handler, is entered on top of input() (run.py:480)
ForceHandler ==
    /\ sigPc = "prompt"
    /\ sigPc' = "forced"
    /\ UNCHANGED <<max_concurrency, mainPc, testIdx, current, thread_queue,
                   threads, cloudlab_lock, cloudlab_logger, old_logger,
                   experiment, experiments, joinIdx, exitVia>>
    /\ UNCHANGED ctlVars /\ UNCHANGED <<retryVars, unitVars>>

\* the body of force_handler: join_then_quit() (run.py:481)
ForceQuit_reprompt ==
    /\ sigPc = "forced"
    /\ sigPc' = "prompt"
    /\ UNCHANGED <<max_concurrency, mainPc, testIdx, current, thread_queue,
                   threads, cloudlab_lock, cloudlab_logger, old_logger,
                   experiment, experiments, joinIdx, exitVia>>
    /\ UNCHANGED ctlVars /\ UNCHANGED <<retryVars, unitVars>>

ForceQuit ==
    /\ sigPc = "forced"
    /\ JoinThenQuit
    /\ UNCHANGED <<max_concurrency, mainPc, testIdx, current, thread_queue,
                   threads, cloudlab_lock, cloudlab_logger, old_logger,
                   experiment, experiments, exitVia>>
    /\ UNCHANGED <<retryVars, unitVars>>

\* what join_all requires of a thread before it moves past it: thread.join()
\* has returned (run.py:466-468)
Joined_nowait(t) == TRUE

Joined(t) == Finished(t)

\* one iteration of `for thread in thread_queue: thread.join()`
JoinAll ==
    /\ sigPc = "join_all"
    /\ joinIdx <= Len(thread_queue)
    /\ Joined(thread_queue[joinIdx])
    /\ joinIdx' = joinIdx + 1
    /\ UNCHANGED <<max_concurrency, mainPc, testIdx, current, thread_queue,
                   threads, cloudlab_lock, cloudlab_logger, old_logger,
                   experiment, experiments, sigPc, exitVia>>
    /\ UNCHANGED ctlVars /\ UNCHANGED <<retryVars, unitVars>>

\* sys.exit(1) (run.py:477): SystemExit unwinds the interrupted frame of the
\* main thread; a with block it is in releases cloudlab_lock and the finally
\* clause of conduct_test restores the logger
SysExit ==
    /\ sigPc = "join_all"
    /\ joinIdx > Len(thread_queue)
    /\ sigPc' = "none"
    /\ mainPc' = "returned"
    /\ exitVia' = "quit"
    /\ cloudlab_lock' = cloudlab_lock \ {MainUnit}
    /\ cloudlab_logger' = IF mainPc = "provisioning"
                          THEN ProvisionFinally(old_logger)
                          ELSE cloudlab_logger
    /\ experiment' = 0
    /\ waiting' = waiting \ {MainUnit}
    /\ UNCHANGED <<max_concurrency, testIdx, current, thread_queue, threads,
                   old_logger, experiments, joinIdx>>
    /\ UNCHANGED <<stopping, stopRequested, notified>> /\ UNCHANGED <<retryVars, unitVars>>

\* TestExecutionThread is a non-daemon threading.Thread (test.py:57-60): once
\* the main thread is done the interpreter waits for every such thread
\* before the process exits
ProcessExit ==
    /\ mainPc = "returned"
    /\ \A t \in Threads : Finished(t)
    /\ mainPc' = "exited"
    /\ UNCHANGED <<max_concurrency, testIdx, current, thread_queue, threads,
                   cloudlab_lock, cloudlab_logger, old_logger, experiment,
                   experiments, sigPc, joinIdx, exitVia>>
    /\ UNCHANGED ctlVars /\ UNCHANGED <<retryVars, unitVars>>

----------------------------------------------------------------------------
(* execution/test.py: execute, terminal, run_sequence *)

\* retry(retry_count=5, ...) of execute (test.py:215)
ExecuteRetryCount == 5

\* the retry_count execute passes to terminal and to run_sequence
\* (test.py:219, 235, 251, 257)
StepRetryCount(step) ==
    CASE step = "terminal" -> 10
      [] step = "clone" -> 10
      [] step = "copy" -> 10
      [] step = "cd" -> 1

\* the order of the statements in execute's try block (test.py:219-262)
NextStep(step) ==
    CASE step = "terminal" -> "clone"
      [] step = "clone" -> "copy"
      [] step = "copy" -> "cd"
      [] step = "cd" -> "script"

\* the except clauses of execute (test.py:271-274). OperationFailed and
\* ExitEarly come from execution/exceptions.py; both are taken as subclasses
\* of Exception, as the order of the clauses here and at run.py:191-197 implies
ExecuteHandler_narrow(exc) == IF exc = "Exception" THEN "failed" ELSE "raise"

ExecuteHandler(exc) == IF exc = "ExitEarly" THEN "raise" ELSE "failed"

\* an exception reaches execute's try block: re-raised out of execute, or
\* recorded with current.failed(ex) before the for statement goes on
ExRaise(exc) ==
    IF ExecuteHandler(exc) = "raise"
    THEN exPc' = exc /\ UNCHANGED exCurrent
    ELSE exPc' = "outer_next" /\ exCurrent' = failed(exCurrent, "exc", None)

\* `except: ssh.close(); raise` of terminal and run_sequence
\* (test.py:135-137, 180-182)
ExClose ==
    /\ exSsh' = "closed"
    /\ exOpen' = IF exSsh = "open" THEN exOpen - 1 ELSE exOpen

\* the cursor of test.py:215 has yielded a handle: the try block is entered
ExBeginAttempt ==
    /\ exPc' = "step"
    /\ exStep' = "terminal"
    /\ exAttempts' = exAttempts + 1

\* positions inside the try block of execute
InAttempt ==
    exPc \in {"step", "inner_next", "inner_wait", "inner_attempt", "script"}

\* the for statement of test.py:215 calls current.__next__
ExOuterNext ==
    /\ exPc = "outer_next"
    /\ LET r == retry_next(exCurrent) IN
        /\ exCurrent' = r.cursor
        /\ CASE r.result = "OperationFailed" ->
                  exPc' = "OperationFailed" /\ UNCHANGED <<exStep, exAttempts>>
             [] r.result = "wait" ->
                  exPc' = "outer_wait" /\ UNCHANGED <<exStep, exAttempts>>
             [] r.result = "return" -> ExBeginAttempt
    /\ UNCHANGED <<exInner, exSsh, exSshAttempt, exOpen>>
    /\ UNCHANGED ctlVars /\ UNCHANGED <<sysVars, retryVars, provVars, pureVars>>

\* wait(retry_delay) of the cursor of test.py:215 returns (retry.py:120-124)
ExOuterWaitReturn ==
    /\ exPc = "outer_wait"
    /\ IF wait_result
       THEN exPc' = "ExitEarly" /\ UNCHANGED <<exStep, exAttempts>>
       ELSE ExBeginAttempt
    /\ UNCHANGED <<exCurrent, exInner, exSsh, exSshAttempt, exOpen>>
    /\ UNCHANGED ctlVars /\ UNCHANGED <<sysVars, retryVars, provVars, pureVars>>

\* the next statement of the try block is entered: terminal creates a pxssh
\* object and its cursor (test.py:118, 127), run_sequence creates its cursor
\* (test.py:146), the primary script is sent (test.py:262)
ExStepBegin ==
    /\ exPc = "step"
    /\ IF exStep = "script"
       THEN exPc' = "script" /\ UNCHANGED <<exInner, exSsh, exSshAttempt>>
       ELSE /\ exPc' = "inner_next"
            /\ exInner' = retry(StepRetryCount(exStep), DefaultBackoff, "QUADRATIC")
            /\ IF exStep = "terminal"
               THEN exSsh' = "new" /\ exSshAttempt' = exAttempts
               ELSE UNCHANGED <<exSsh, exSshAttempt>>
    /\ UNCHANGED <<exCurrent, exStep, exAttempts, exOpen>>
    /\ UNCHANGED ctlVars /\ UNCHANGED <<sysVars, retryVars, provVars, pureVars>>

\* the for statement of terminal / run_sequence calls current.__next__
\* (test.py:127, 146); OperationFailed passes the bare except of the step
ExInnerNext ==
    /\ exPc = "inner_next"
    /\ LET r == retry_next(exInner) IN
        /\ exInner' = r.cursor
        /\ CASE r.result = "OperationFailed" ->
                  ExClose /\ ExRaise("OperationFailed")
             [] r.result = "wait" ->
                  exPc' = "inner_wait" /\ UNCHANGED <<exCurrent, exSsh, exOpen>>
             [] r.result = "return" ->
                  exPc' = "inner_attempt" /\ UNCHANGED <<exCurrent, exSsh, exOpen>>
    /\ UNCHANGED <<exStep, exAttempts, exSshAttempt>>
    /\ UNCHANGED ctlVars /\ UNCHANGED <<sysVars, retryVars, provVars, pureVars>>

\* wait(retry_delay) of the inner cursor returns
ExInnerWaitReturn ==
    /\ exPc = "inner_wait"
    /\ IF wait_result
       THEN ExClose /\ ExRaise("ExitEarly")
       ELSE exPc' = "inner_attempt" /\ UNCHANGED <<exCurrent, exSsh, exOpen>>
    /\ UNCHANGED <<exStep, exInner, exAttempts, exSshAttempt>>
    /\ UNCHANGED ctlVars /\ UNCHANGED <<sysVars, retryVars, provVars, pureVars>>

\* one attempt of the inner step. "ok": ssh.login returned / every command of
\* the sequence exited with 0; "soft": pxssh.ExceptionPxssh / a non-zero exit
\* code, recorded with current.failed (test.py:130-131, 170-175); "hard": any
\* other exception (pexpect TIMEOUT or EOF, ValueError of int(), the unbound
\* exitcode of test.py:167), which passes the bare except of the step
ExInnerAttempt(outcome) ==
    /\ exPc = "inner_attempt"
    /\ outcome \in {"ok", "soft", "hard"}
    /\ CASE outcome = "ok" ->
              /\ exPc' = "step"
              /\ exStep' = NextStep(exStep)
              /\ IF exStep = "terminal"
                 THEN exSsh' = "open" /\ exOpen' = exOpen + 1
                 ELSE UNCHANGED <<exSsh, exOpen>>
              /\ UNCHANGED <<exCurrent, exInner>>
         [] outcome = "soft" ->
              /\ exPc' = "inner_next"
              /\ exInner' = IF exStep = "terminal"
                            THEN failed(exInner, "exc", None)
                            ELSE failed(exInner, "str", None)
              /\ UNCHANGED <<exCurrent, exStep, exSsh, exOpen>>
         [] outcome = "hard" ->
              /\ ExClose /\ ExRaise("Exception")
              /\ UNCHANGED <<exStep, exInner>>
    /\ UNCHANGED <<exAttempts, exSshAttempt>>
    /\ UNCHANGED ctlVars /\ UNCHANGED <<sysVars, retryVars, provVars, pureVars>>

\* the primary script and ssh.logout() (test.py:262-270). "hard": prompt,
\* expect or logout raises; the session is not closed on this path
ExScript(outcome) ==
    /\ exPc = "script"
    /\ outcome \in {"ok", "hard"}
    /\ IF outcome = "ok"
       THEN /\ exPc' = "returned"
            /\ exSsh' = "closed"
            /\ exOpen' = exOpen - 1
            /\ UNCHANGED exCurrent
       ELSE ExRaise("Exception") /\ UNCHANGED <<exSsh, exOpen>>
    /\ UNCHANGED <<exStep, exInner, exAttempts, exSshAttempt>>
    /\ UNCHANGED ctlVars /\ UNCHANGED <<sysVars, retryVars, provVars, pureVars>>

----------------------------------------------------------------------------
(* execution/cloudlab.py: provision and the login nested in it *)

\* retry_count of provision, passed on to login (cloudlab.py:154, 160, 173)
ProvisionRetryCount == 5

\* `except Exception as ex: current.failed("could not log in", ex); continue`
\* around the nested login (cloudlab.py:161-163, 174-176): there is no clause
\* for ExitEarly before it
LoginHandler(exc) == "failed"

\* the nested login raised exc into provision
PvLoginRaises(exc) ==
    /\ pvSite' = 0
    /\ IF LoginHandler(exc) = "failed"
       THEN pvPc' = "next" /\ pvCurrent' = failed(pvCurrent, "str", "exc")
       ELSE pvPc' = exc /\ UNCHANGED pvCurrent

\* the nested login returned: provision goes on after the call
PvLoginReturns ==
    /\ pvPc' = IF pvSite = 1 THEN "page" ELSE "instantiate"
    /\ pvSite' = 0

\* self.login(retry_count=retry_count) is entered (cloudlab.py:59-62)
PvLoginBegin(site) ==
    /\ pvSite' = site
    /\ pvLogin' = retry(ProvisionRetryCount, DefaultBackoff, "QUADRATIC")
    /\ pvPc' = "login_next"

\* the for statement of cloudlab.py:157 calls current.__next__
PvNext ==
    /\ pvPc = "next"
    /\ LET r == retry_next(pvCurrent) IN
        /\ pvCurrent' = r.cursor
        /\ pvPc' = CASE r.result = "OperationFailed" -> "OperationFailed"
                     [] r.result = "wait" -> "wait"
                     [] r.result = "return" -> "auth"
    /\ UNCHANGED <<pvLogin, pvAuthenticated, pvSite, pvExitRaised>>
    /\ UNCHANGED pollVars
    /\ UNCHANGED ctlVars /\ UNCHANGED <<sysVars, retryVars, execVars, pureVars>>

\* wait(retry_delay) of provision's cursor returns (retry.py:120-124)
PvWaitReturn ==
    /\ pvPc = "wait"
    /\ IF wait_result
       THEN pvPc' = "ExitEarly" /\ pvExitRaised' = TRUE
       ELSE pvPc' = "auth" /\ UNCHANGED pvExitRaised
    /\ UNCHANGED <<pvCurrent, pvLogin, pvAuthenticated, pvSite>>
    /\ UNCHANGED pollVars
    /\ UNCHANGED ctlVars /\ UNCHANGED <<sysVars, retryVars, execVars, pureVars>>

\* if not self._authenticated: self.login(...) (cloudlab.py:158-160)
PvAuth ==
    /\ pvPc = "auth"
    /\ IF pvAuthenticated
       THEN pvPc' = "page" /\ UNCHANGED <<pvLogin, pvSite>>
       ELSE PvLoginBegin(1)
    /\ UNCHANGED <<pvCurrent, pvAuthenticated, pvExitRaised>>
    /\ UNCHANGED pollVars
    /\ UNCHANGED ctlVars /\ UNCHANGED <<sysVars, retryVars, execVars, pureVars>>

\* the for statement of login calls current.__next__ (cloudlab.py:62)
PvLoginNext ==
    /\ pvPc = "login_next"
    /\ LET r == retry_next(pvLogin) IN
        /\ pvLogin' = r.cursor
        /\ CASE r.result = "OperationFailed" -> PvLoginRaises("OperationFailed")
             [] r.result = "wait" ->
                  pvPc' = "login_wait" /\ UNCHANGED <<pvCurrent, pvSite>>
             [] r.result = "return" ->
                  pvPc' = "login_attempt" /\ UNCHANGED <<pvCurrent, pvSite>>
    /\ UNCHANGED <<pvAuthenticated, pvExitRaised>>
    /\ UNCHANGED pollVars
    /\ UNCHANGED ctlVars /\ UNCHANGED <<sysVars, retryVars, execVars, pureVars>>

\* wait(retry_delay) of login's cursor returns: ExitEarly leaves login
PvLoginWaitReturn ==
    /\ pvPc = "login_wait"
    /\ IF wait_result
       THEN pvExitRaised' = TRUE /\ PvLoginRaises("ExitEarly")
       ELSE pvPc' = "login_attempt" /\ UNCHANGED <<pvCurrent, pvSite, pvExitRaised>>
    /\ UNCHANGED <<pvLogin, pvAuthenticated>>
    /\ UNCHANGED pollVars
    /\ UNCHANGED ctlVars /\ UNCHANGED <<sysVars, retryVars, execVars, pureVars>>

\* one pass of login's loop body (cloudlab.py:63-94). "dashboard": the User
\* Dashboard is reached, before or after the form; "unknown": neither page
\* title; "form_error": the form could not be used; "still_login": the Login
\* page is shown again after the form (nothing is recorded); "Exception":
\* driver.get or WebDriverWait raises
PvLoginAttempt(outcome) ==
    /\ pvPc = "login_attempt"
    /\ outcome \in {"dashboard", "unknown", "form_error", "still_login", "Exception"}
    /\ CASE outcome = "dashboard" ->
              /\ pvAuthenticated' = TRUE
              /\ PvLoginReturns
              /\ UNCHANGED <<pvCurrent, pvLogin>>
         [] outcome = "unknown" ->
              /\ pvLogin' = failed(pvLogin, "str", None)
              /\ pvPc' = "login_next"
              /\ UNCHANGED <<pvCurrent, pvAuthenticated, pvSite>>
         [] outcome = "form_error" ->
              /\ pvLogin' = failed(pvLogin, "str", "exc")
              /\ pvAuthenticated' = FALSE
              /\ pvPc' = "login_next"
              /\ UNCHANGED <<pvCurrent, pvSite>>
         [] outcome = "still_login" ->
              /\ pvAuthenticated' = FALSE
              /\ pvPc' = "login_next"
              /\ UNCHANGED <<pvCurrent, pvLogin, pvSite>>
         [] outcome = "Exception" ->
              /\ PvLoginRaises("Exception")
              /\ UNCHANGED <<pvLogin, pvAuthenticated>>
    /\ UNCHANGED pvExitRaised
    /\ UNCHANGED pollVars
    /\ UNCHANGED ctlVars /\ UNCHANGED <<sysVars, retryVars, execVars, pureVars>>

\* driver.get(instantiate.php) and the second check (cloudlab.py:165-173).
\* "login": the Login page is shown; "Exception": get or WebDriverWait raises
\* outside any try block
PvPage(outcome) ==
    /\ pvPc = "page"
    /\ outcome \in {"ok", "login", "Exception"}
    /\ CASE outcome = "ok" ->
              pvPc' = "instantiate" /\ UNCHANGED <<pvLogin, pvAuthenticated, pvSite>>
         [] outcome = "login" ->
              pvAuthenticated' = FALSE /\ PvLoginBegin(2)
         [] outcome = "Exception" ->
              pvPc' = "Exception" /\ UNCHANGED <<pvLogin, pvAuthenticated, pvSite>>
    /\ UNCHANGED <<pvCurrent, pvExitRaised>>
    /\ UNCHANGED pollVars
    /\ UNCHANGED ctlVars /\ UNCHANGED <<sysVars, retryVars, execVars, pureVars>>

\* the profile form up to Finish (cloudlab.py:178-215). "failed": a wait or
\* an element of the form raises: current.failed(ex); continue
PvInstantiate(outcome) ==
    /\ pvPc = "instantiate"
    /\ outcome \in {"ok", "failed"}
    /\ CASE outcome = "ok" ->
              pvPc' = "status_page" /\ UNCHANGED pvCurrent
         [] outcome = "failed" ->
              pvPc' = "next" /\ pvCurrent' = failed(pvCurrent, "exc", None)
    /\ UNCHANGED <<pvLogin, pvAuthenticated, pvSite, pvExitRaised>>
    /\ UNCHANGED pollVars
    /\ UNCHANGED ctlVars /\ UNCHANGED <<sysVars, retryVars, execVars, pureVars>>

\* the wait for the Experiment Status page (cloudlab.py:217-235).
\* "not_logged_in": the wait times out on the Login page; "failed": it times
\* out on the Instantiate page or on an unknown page
PvStatusPage(outcome) ==
    /\ pvPc = "status_page"
    /\ outcome \in {"ok", "not_logged_in", "failed"}
    /\ CASE outcome = "ok" ->
              pvPc' = "experiment" /\ UNCHANGED <<pvCurrent, pvAuthenticated>>
         [] outcome = "not_logged_in" ->
              /\ pvPc' = "next"
              /\ pvCurrent' = failed(pvCurrent, "str", "exc")
              /\ pvAuthenticated' = FALSE
         [] outcome = "failed" ->
              /\ pvPc' = "next"
              /\ pvCurrent' = failed(pvCurrent, "str", None)
              /\ UNCHANGED pvAuthenticated
    /\ UNCHANGED <<pvLogin, pvSite, pvExitRaised>>
    /\ UNCHANGED pollVars
    /\ UNCHANGED ctlVars /\ UNCHANGED <<sysVars, retryVars, execVars, pureVars>>

\* the texts of span#quickvm_status the code tells apart
\* (cloudlab.py:262-272); "failed" stands for every other text
Status == {"created", "provisioning", "booting", "ready", "terminating", "failed"}

\* `status == 'created' or status == 'provisioning' or status == 'booting'`
\* (cloudlab.py:269)
KeepWaiting == {"created", "provisioning", "booting"}

\* experiment = ProvisionedExperiment(uuid, exp_name) and the first read of
\* the status (cloudlab.py:239-255). "Exception": the wait for the Name cell
\* times out, outside any try block
PvExperiment(outcome) ==
    /\ pvPc = "experiment"
    /\ outcome \in Status \cup {"Exception"}
    /\ IF outcome = "Exception"
       THEN /\ pvPc' = "Exception"
            /\ UNCHANGED <<pvExperiment, pvStatus, pvSeen, pvTerminated,
                           pvReported>>
       ELSE /\ pvExperiment' = pvExperiment + 1
            /\ pvStatus' = outcome
            /\ pvSeen' = {outcome}
            /\ pvTerminated' = 0
            /\ pvReported' = FALSE
            /\ pvPc' = IF outcome = "ready" THEN "listview" ELSE "poll"
    /\ UNCHANGED <<pvCurrent, pvLogin, pvAuthenticated, pvSite, pvExitRaised>>
    /\ UNCHANGED <<pvThen, pvHostnames, executor_host, experiment_hosts>>
    /\ UNCHANGED ctlVars /\ UNCHANGED <<sysVars, retryVars, execVars, pureVars>>

\* where one pass of `while status != "ready"` goes once status was read
\* again (cloudlab.py:262-286)
PollBranch_terminate(status) ==
    CASE status = "ready" -> "listview"
      [] status \in KeepWaiting -> "poll"
      [] OTHER -> "safe_terminate"

PollBranch(status) ==
    CASE status = "terminating" -> "poll_failed"
      [] status = "ready" -> "listview"
      [] status \in KeepWaiting -> "poll"
      [] OTHER -> "safe_terminate"

\* one pass of `while status != "ready"` (cloudlab.py:255-292). "present":
\* the text "ready" is seen within the 4 seconds of the wait; a status: the
\* wait timed out and status was read again
PvPoll(reading) ==
    /\ pvPc = "poll"
    /\ reading \in Status \cup {"present"}
    /\ IF reading = "present"
       THEN /\ pvStatus' = "ready"
            /\ pvSeen' = pvSeen \cup {"ready"}
            /\ pvPc' = "listview"
            /\ UNCHANGED pvThen
       ELSE /\ pvStatus' = reading
            /\ pvSeen' = pvSeen \cup {reading}
            /\ pvPc' = PollBranch(reading)
            /\ pvThen' = IF PollBranch(reading) = "safe_terminate"
                         THEN "poll_failed" ELSE pvThen
    /\ UNCHANGED <<pvCurrent, pvLogin, pvAuthenticated, pvSite, pvExitRaised>>
    /\ UNCHANGED <<pvExperiment, pvTerminated, pvReported, pvHostnames,
                   executor_host, experiment_hosts>>
    /\ UNCHANGED ctlVars /\ UNCHANGED <<sysVars, retryVars, execVars, pureVars>>

\* current.failed(...); failed = True; break and the `continue` of
\* cloudlab.py:291-292
PvPollFailed ==
    /\ pvPc = "poll_failed"
    /\ pvCurrent' = failed(pvCurrent, "str", None)
    /\ pvReported' = TRUE
    /\ pvPc' = "next"
    /\ UNCHANGED <<pvLogin, pvAuthenticated, pvSite, pvExitRaised>>
    /\ UNCHANGED <<pvThen, pvExperiment, pvStatus, pvSeen, pvTerminated,
                   pvHostnames, executor_host, experiment_hosts>>
    /\ UNCHANGED ctlVars /\ UNCHANGED <<sysVars, retryVars, execVars, pureVars>>

\* self.safe_terminate(experiment, retry_count=retry_count) is called and
\* returns (cloudlab.py:278, 307, 319, 330-336): whatever terminate raises
\* is logged and dropped. a: the value terminate leaves in _authenticated
PvSafeTerminate(a) ==
    /\ pvPc = "safe_terminate"
    /\ pvTerminated' = pvTerminated + 1
    /\ pvAuthenticated' = a
    /\ pvPc' = pvThen
    /\ pvThen' = None
    /\ UNCHANGED <<pvCurrent, pvLogin, pvSite, pvExitRaised>>
    /\ UNCHANGED <<pvExperiment, pvStatus, pvSeen, pvReported, pvHostnames,
                   executor_host, experiment_hosts>>
    /\ UNCHANGED ctlVars /\ UNCHANGED <<sysVars, retryVars, execVars, pureVars>>

\* the list view is opened (cloudlab.py:294-308). "failed": the tab is not
\* visible or not found: current.failed(...), then safe_terminate, continue
PvListview(outcome) ==
    /\ pvPc = "listview"
    /\ outcome \in {"ok", "failed"}
    /\ CASE outcome = "ok" ->
              /\ pvPc' = "hostnames"
              /\ UNCHANGED <<pvCurrent, pvReported, pvThen>>
         [] outcome = "failed" ->
              /\ pvCurrent' = failed(pvCurrent, "str", "exc")
              /\ pvReported' = TRUE
              /\ pvPc' = "safe_terminate"
              /\ pvThen' = "next"
    /\ UNCHANGED <<pvLogin, pvAuthenticated, pvSite, pvExitRaised>>
    /\ UNCHANGED <<pvExperiment, pvStatus, pvSeen, pvTerminated, pvHostnames,
                   executor_host, experiment_hosts>>
    /\ UNCHANGED ctlVars /\ UNCHANGED <<sysVars, retryVars, execVars, pureVars>>

\* the texts of the kbd elements of the list view, by their parts: an ssh
\* command line "ssh -p 22 user@host", or some other text
SshCommand(host) == [command |-> "ssh -p", host |-> host]

OtherText == [command |-> "text", host |-> None]

SshCommandLists ==
    { << >>,
      <<OtherText>>,
      <<SshCommand("node0")>>,
      <<SshCommand("node0"), SshCommand("node1")>>,
      <<SshCommand("node1"), SshCommand("node0")>>,
      <<SshCommand("node0"), OtherText, SshCommand("node1")>>,
      <<SshCommand("node2"), SshCommand("node0"), SshCommand("node1")>> }

\* re.search(SSH_REGEX, ssh_command) (cloudlab.py:19, 323)
SshMatches(ssh_command) == ssh_command.command = "ssh -p"

\* the loop of cloudlab.py:321-325: group(1) of every command that matches
RECURSIVE Hostnames(_)
Hostnames(ssh_commands) ==
    IF ssh_commands = << >> THEN << >>
    ELSE IF SshMatches(Head(ssh_commands))
         THEN <<Head(ssh_commands).host>> \o Hostnames(Tail(ssh_commands))
         ELSE Hostnames(Tail(ssh_commands))

\* the hostnames are read and the Experiment is returned
\* (cloudlab.py:310-328); with no kbd element: current.failed(...), then
\* safe_terminate, continue
PvHostnames(ssh_commands) ==
    /\ pvPc = "hostnames"
    /\ ssh_commands \in SshCommandLists
    /\ IF ssh_commands = << >>
       THEN /\ pvCurrent' = failed(pvCurrent, "str", None)
            /\ pvReported' = TRUE
            /\ pvPc' = "safe_terminate"
            /\ pvThen' = "next"
            /\ UNCHANGED pvHostnames
       ELSE /\ pvHostnames' = Hostnames(ssh_commands)
            /\ pvPc' = "returned"
            /\ UNCHANGED <<pvCurrent, pvReported, pvThen>>
    /\ UNCHANGED <<pvLogin, pvAuthenticated, pvSite, pvExitRaised>>
    /\ UNCHANGED <<pvExperiment, pvStatus, pvSeen, pvTerminated,
                   executor_host, experiment_hosts>>
    /\ UNCHANGED ctlVars /\ UNCHANGED <<sysVars, retryVars, execVars, pureVars>>

\* executor_host = hosts[0] (run.py:210)
ExecutorHost_last(hostnames) == hostnames[Len(hostnames)]

ExecutorHost(hostnames) == hostnames[1]

\* experiment_hosts = hosts[1:] (run.py:211)
ExperimentHosts(hostnames) == SubSeq(hostnames, 2, Len(hostnames))

\* conduct_test takes the hosts of the Experiment provision returned
\* (run.py:208-211); hosts[0] of an empty list raises IndexError
PvConductHosts ==
    /\ pvPc = "returned"
    /\ IF pvHostnames = << >>
       THEN /\ pvPc' = "IndexError"
            /\ UNCHANGED <<executor_host, experiment_hosts>>
       ELSE /\ executor_host' = ExecutorHost(pvHostnames)
            /\ experiment_hosts' = ExperimentHosts(pvHostnames)
            /\ pvPc' = "assign_hosts"
    /\ UNCHANGED <<pvCurrent, pvLogin, pvAuthenticated, pvSite, pvExitRaised>>
    /\ UNCHANGED <<pvThen, pvExperiment, pvStatus, pvSeen, pvTerminated,
                   pvReported, pvHostnames>>
    /\ UNCHANGED ctlVars /\ UNCHANGED <<sysVars, retryVars, execVars, pureVars>>


----------------------------------------------------------------------------
(* run.py: flatten_tests, flatten_globals, flatten_matrices, flatten_replicas *)

\* Strings are sequences of one-character strings: "a-01" is
\* <<"a", "-", "0", "1">>. An absent or empty text is << >> (both are falsy
\* in `if not test_id` / `if not value_id`). An optional integer key of a
\* test set is << >> when absent and <<n>> when present.
DigitChars == <<"0", "1", "2", "3", "4", "5", "6", "7", "8", "9">>

\* str(n) for n >= 0
RECURSIVE Str(_)
Str(n) ==
    IF n < 10 THEN <<DigitChars[n + 1]>>
    ELSE Str(n \div 10) \o <<DigitChars[(n % 10) + 1]>>

\* int(s) for a text of decimal digits
RECURSIVE Int_(_)
Int_(s) ==
    IF s = << >> THEN 0
    ELSE Int_(SubSeq(s, 1, Len(s) - 1)) * 10
           + ((CHOOSE d \in 1..10 : DigitChars[d] = s[Len(s)]) - 1)

IsDigit(c) == \E d \in 1..10 : DigitChars[d] = c

\* "{:0W}".format(j): at least id_length characters, zeros on the left
RECURSIVE ZeroPad_right(_, _)
ZeroPad_right(text, id_length) ==
    IF Len(text) >= id_length THEN text
    ELSE ZeroPad_right(text \o <<"0">>, id_length)

RECURSIVE ZeroPad(_, _)
ZeroPad(text, id_length) ==
    IF Len(text) >= id_length THEN text
    ELSE ZeroPad(<<"0">> \o text, id_length)

\* test_set.get(key, default) for the optional integer keys
Get(field, default) == IF field = << >> THEN default ELSE field[1]

\* {**a, **b}, and always_merger.merge(a, b) on mappings whose values are
\* not themselves mappings or lists: the keys of b replace those of a
MergeOptions(a, b) ==
    [k \in DOMAIN a \cup DOMAIN b |-> IF k \in DOMAIN b THEN b[k] ELSE a[k]]

\* options = {**test_set.get("options", {}), **global_options} (run.py:294)
GlobalMerge(test_options, global_options) ==
    MergeOptions(test_options, global_options)

\* flatten_globals (run.py:290-298)
flatten_globals(tests, global_options) ==
    [i \in 1..Len(tests) |->
        [tests[i] EXCEPT !.options = GlobalMerge(tests[i].options, global_options)]]

\* new_id = f"{test_id}-{value_id}" (run.py:326)
NewId_reversed(test_id, value_id) == value_id \o <<"-">> \o test_id

NewId(test_id, value_id) == test_id \o <<"-">> \o value_id

\* what a value-entry without an id contributes (run.py:322-324): `continue`
NoValueId_kept(test) == <<test>>

NoValueId(test) == << >>

\* the matrix_ids of new_test (run.py:333-336): the copy of the test's own
\* with {name: value_id} merged in
MatrixIds(matrix_ids, name, value_id) ==
    MergeOptions(matrix_ids, [n \in {name} |-> value_id])

\* new_test of run.py:327-336: the deep copy of test with partial_config
\* merged in, the new id and the matrix_ids
NewTest(test, name, partial_config) ==
    [test EXCEPT !.id = NewId(test.id, partial_config.id),
                 !.options = MergeOptions(test.options, partial_config.options),
                 !.matrix_ids = MatrixIds(test.matrix_ids, name, partial_config.id)]

\* `for test in intermediate` (run.py:317-337): a test without id ends the
\* loop, a value-entry without id is passed over
RECURSIVE ForTests(_, _, _)
ForTests(intermediate, name, partial_config) ==
    IF intermediate = << >> THEN << >>
    ELSE LET test == Head(intermediate) IN
         IF test.id = << >> THEN << >>
         ELSE (IF partial_config.id = << >>
               THEN NoValueId(test)
               ELSE <<NewTest(test, name, partial_config)>>)
              \o ForTests(Tail(intermediate), name, partial_config)

\* `for partial_config in values` (run.py:316-337)
RECURSIVE ForValues(_, _, _)
ForValues(values, intermediate, name) ==
    IF values = << >> THEN << >>
    ELSE ForTests(intermediate, name, Head(values))
           \o ForValues(Tail(values), intermediate, name)

\* one dimension (run.py:309-339): `if not values: continue`, otherwise
\* intermediate = new_intermediate
Dimension(dimension, intermediate) ==
    IF dimension.values = << >> THEN intermediate
    ELSE ForValues(dimension.values, intermediate, dimension.name)

\* `for dimension in test_set["matrix"]` (run.py:308-339)
RECURSIVE ForDimensions(_, _)
ForDimensions(matrix, intermediate) ==
    IF matrix = << >> THEN intermediate
    ELSE ForDimensions(Tail(matrix), Dimension(Head(matrix), intermediate))

\* flatten_matrices (run.py:301-345); a test set with no "matrix" key is
\* appended as it is, which is also what an empty matrix gives
RECURSIVE flatten_matrices(_)
flatten_matrices(tests) ==
    IF tests = << >> THEN << >>
    ELSE ForDimensions(Head(tests).matrix, <<Head(tests)>>)
           \o flatten_matrices(Tail(tests))

\* RESULT_TAR_REGEX on the basename, the extension .tar.gz left out
\* (run.py:30, 385-386): (.+) is greedy, so the split is at the last "-",
\* and what follows it must be one or more digits
LastDash(filename) ==
    LET dashes == {i \in 1..Len(filename) : filename[i] = "-"} IN
    IF dashes = {} THEN 0 ELSE CHOOSE i \in dashes : \A k \in dashes : k <= i

ResultMatches(filename) ==
    LET d == LastDash(filename) IN
    /\ d > 1
    /\ d < Len(filename)
    /\ \A i \in (d + 1)..Len(filename) : IsDigit(filename[i])

\* match_obj.group(1), int(match_obj.group(2)) (run.py:388-389)
ResultTestId(filename) == SubSeq(filename, 1, LastDash(filename) - 1)

ResultReplica(filename) ==
    Int_(SubSeq(filename, LastDash(filename) + 1, Len(filename)))

\* get_completed_tests (run.py:380-396): test id -> set of replica numbers
get_completed_tests(files) ==
    LET matched == {f \in files : ResultMatches(f)} IN
    [test_id \in {ResultTestId(f) : f \in matched} |->
        {ResultReplica(f) : f \in {g \in matched : ResultTestId(g) = test_id}}]

\* id_length = max(max(replicas_len), 2) (run.py:349-351)
IdLength(tests) ==
    LET replicas_len == {Len(Str(Get(tests[i].replicas, 1))) : i \in 1..Len(tests)}
        longest == CHOOSE n \in replicas_len : \A m \in replicas_len : m <= n
    IN IF longest > 2 THEN longest ELSE 2

\* TestReplica(test_id=test_run_id, options=options, ..., matrix_ids=matrix_ids)
\* (run.py:373-375, test.py:18-24); a test set without matrix_ids has the
\* empty mapping here where the code has None
TestReplica(test_set, test_run_id) ==
    [id |-> test_run_id, options |-> test_set.options,
     matrix_ids |-> test_set.matrix_ids]

\* `for i in range(replicas - completed)` (run.py:366-375) for the values of
\* i from lo up to hi - 1, in order; the range is split in halves so that the
\* evaluation stays shallow for a large replica count
RECURSIVE ForRange(_, _, _, _, _)
ForRange(test_set, lo, hi, id_length, completed_tests) ==
    LET completed == Get(test_set.completed, 0)
        j == lo + completed
        test_id == test_set.id
        mid == (lo + hi) \div 2
    IN IF lo >= hi THEN << >>
       ELSE IF hi = lo + 1
       THEN (IF test_id \in DOMAIN completed_tests /\ j \in completed_tests[test_id]
             THEN << >>
             ELSE <<TestReplica(test_set,
                                test_id \o <<"-">> \o ZeroPad(Str(j), id_length))>>)
       ELSE ForRange(test_set, lo, mid, id_length, completed_tests)
              \o ForRange(test_set, mid, hi, id_length, completed_tests)

\* `for test_set in tests` (run.py:357-375)
RECURSIVE ForTestSets(_, _, _)
ForTestSets(tests, id_length, completed_tests) ==
    IF tests = << >> THEN << >>
    ELSE ForRange(Head(tests), 0,
                  Get(Head(tests).replicas, 1) - Get(Head(tests).completed, 0),
                  id_length, completed_tests)
           \o ForTestSets(Tail(tests), id_length, completed_tests)

\* flatten_replicas (run.py:348-377); max() of no test set raises ValueError
flatten_replicas(tests, files) ==
    ForTestSets(tests, IdLength(tests), get_completed_tests(files))

\* The configurations drawn. Option values tell where they were written:
\* in the global options, in a test set or in a value-entry of a dimension.
OptionKeys == {"k1", "k2"}

OptionValue(origin, name, value_id) ==
    [origin |-> origin, name |-> name, id |-> value_id]

OptionsFrom(origin) ==
    {[k \in K |-> OptionValue(origin, 0, << >>)] : K \in SUBSET OptionKeys}

\* a value-entry of the dimension named `name`
ValueEntry(name, value_id, keys) ==
    [id |-> value_id, options |-> [k \in keys |-> OptionValue("matrix", name, value_id)]]

\* the `values` lists drawn for the dimension named `name`
ValueLists(name) ==
    { << >>,
      <<ValueEntry(name, <<"x">>, {"k1"})>>,
      <<ValueEntry(name, <<"x">>, {"k1"}), ValueEntry(name, <<"y">>, {"k1", "k2"})>>,
      <<ValueEntry(name, << >>, {"k2"})>>,
      <<ValueEntry(name, << >>, {"k2"}), ValueEntry(name, <<"y">>, {})>>,
      <<ValueEntry(name, <<"y">>, {}), ValueEntry(name, <<"x">>, {"k2"})>> }

\* the matrices of up to n dimensions; dimension d is named d
RECURSIVE Matrices(_)
Matrices(n) ==
    IF n = 0 THEN {<< >>}
    ELSE LET shorter == Matrices(n - 1) IN
         shorter \cup
         {Append(m, [name |-> Len(m) + 1, values |-> v]) :
             m \in {s \in shorter : Len(s) = n - 1},
             v \in ValueLists(n)}

TestSet(id, options, matrix, replicas, completed) ==
    [id |-> id, options |-> options, matrix |-> matrix,
     replicas |-> replicas, completed |-> completed,
     matrix_ids |-> [n \in {} |-> << >>]]

NoOptions == [k \in {} |-> << >>]

\* test sets with a matrix and one replica
MatrixTestSets ==
    {TestSet(<<"a">>, o, m, << >>, << >>) :
        o \in OptionsFrom("test"), m \in Matrices(MaxDimensions)}

\* test sets without a matrix
PlainTestSets(ids) ==
    {TestSet(id, NoOptions, << >>, r, c) :
        id \in ids,
        r \in {<< >>} \cup {<<n>> : n \in (0..MaxReplicas) \cup {ManyReplicas}},
        c \in {<< >>, <<1>>, <<ManyReplicas - 2>>}}

\* basenames of the .tar.gz files under results/
ResultFiles ==
    { <<"a", "-", "0", "0">>, <<"a", "-", "0", "0", "1">>,
      <<"b", "-", "0", "1">>, <<"a", "-", "x">> }

\* the configurations: one test set with a matrix, alone or followed by a
\* plain one, under each global options mapping; or one or two plain test
\* sets with distinct ids over each set of result files
Configs ==
    {[tests |-> <<t>>, options |-> g, files |-> {}] :
        t \in MatrixTestSets, g \in OptionsFrom("global")}
    \cup
    {[tests |-> <<t, TestSet(id, NoOptions, << >>, << >>, << >>)>>,
      options |-> NoOptions, files |-> {}] :
        t \in MatrixTestSets, id \in {<<"a", "-", "x">>, <<"b">>}}
    \cup
    {[tests |-> <<t>>, options |-> NoOptions, files |-> f] :
        t \in PlainTestSets({<<"a">>}), f \in SUBSET ResultFiles}
    \cup
    {[tests |-> <<t, u>>, options |-> NoOptions, files |-> f] :
        t \in PlainTestSets({<<"a">>}), u \in PlainTestSets({<<"b">>}),
        f \in SUBSET ResultFiles}

\* flattened = flatten_globals(tests, global_options) (run.py:284)
FlattenGlobals ==
    /\ xpPc = "flatten_globals"
    /\ xpGlobals' = flatten_globals(xpConfig.tests, xpConfig.options)
    /\ xpPc' = "flatten_matrices"
    /\ UNCHANGED <<xpConfig, xpMatrices, xpReplicas>>
    /\ UNCHANGED ctlVars /\ UNCHANGED <<sysVars, retryVars, execVars, provVars, assignVars>>

\* flattened = flatten_matrices(flattened) (run.py:285)
FlattenMatrices ==
    /\ xpPc = "flatten_matrices"
    /\ xpMatrices' = flatten_matrices(xpGlobals)
    /\ xpPc' = "flatten_replicas"
    /\ UNCHANGED <<xpConfig, xpGlobals, xpReplicas>>
    /\ UNCHANGED ctlVars /\ UNCHANGED <<sysVars, retryVars, execVars, provVars, assignVars>>

\* flattened = flatten_replicas(flattened); return flattened (run.py:286-287)
FlattenReplicas ==
    /\ xpPc = "flatten_replicas"
    /\ IF xpMatrices = << >>
       THEN xpPc' = "ValueError" /\ UNCHANGED xpReplicas
       ELSE /\ xpReplicas' = flatten_replicas(xpMatrices, xpConfig.files)
            /\ xpPc' = "returned"
    /\ UNCHANGED <<xpConfig, xpGlobals, xpMatrices>>
    /\ UNCHANGED ctlVars /\ UNCHANGED <<sysVars, retryVars, execVars, provVars, assignVars>>

----------------------------------------------------------------------------
(* run.py: assign_hosts, called by conduct_test *)

\* A line of config.sh is the record of its parts: `readonly KEY="..."` or
\* `KEY="..."`. HOST_CONFIG_REGEX (run.py:29) matches the lines whose key is
\* capitals and underscores ending in _HOST or _HOSTS
ConfigLine(readonly, key) == [readonly |-> readonly, key |-> key]

HostKeys == {"WEB_HOSTS", "DB_HOST"}

HostConfigMatches(line) == line.key \in HostKeys

\* match.group(1): the key with the `readonly ` before it, when there is one
HostField(line) == <<line.readonly, line.key>>

\* host_fields (run.py:260): group(1) of every match, in the order of the text
RECURSIVE HostFields(_)
HostFields(lines) ==
    IF lines = << >> THEN << >>
    ELSE IF HostConfigMatches(Head(lines))
         THEN <<HostField(Head(lines))>> \o HostFields(Tail(lines))
         ELSE HostFields(Tail(lines))

\* hosts_for_field of run.py:267-272, taken from the front of host_pool
HostsForField_noextra(i, hosts_per, hosts_extra) == hosts_per

HostsForField(i, hosts_per, hosts_extra) ==
    hosts_per + (IF i < hosts_extra THEN 1 ELSE 0)

\* `for i, host_field in enumerate(host_fields)` from i on (run.py:266-273):
\* assignments[host_field] = hosts_for_field replaces what the key had
RECURSIVE ForFields(_, _, _, _, _, _)
ForFields(host_fields, i, host_pool, hosts_per, hosts_extra, assigned) ==
    IF i >= Len(host_fields) THEN assigned
    ELSE LET n == HostsForField(i, hosts_per, hosts_extra)
             host_field == host_fields[i + 1]
         IN ForFields(host_fields, i + 1,
                      SubSeq(host_pool, n + 1, Len(host_pool)),
                      hosts_per, hosts_extra,
                      [f \in DOMAIN assigned \cup {host_field} |->
                          IF f = host_field THEN SubSeq(host_pool, 1, n)
                          ELSE assigned[f]])

\* the `assignments` of assign_hosts at run.py:274, for num_fields > 0
Assignments(lines, host_list) ==
    LET host_fields == HostFields(lines)
        num_hosts == Len(host_list)
        num_fields == Len(host_fields)
    IN ForFields(host_fields, 0, host_list, num_hosts \div num_fields,
                 num_hosts % num_fields, [f \in {} |-> << >>])

\* " ".join(value) (run.py:274)
RECURSIVE Join(_)
Join(value) ==
    IF value = << >> THEN << >>
    ELSE IF Len(value) = 1 THEN value
    ELSE <<value[1], " ">> \o Join(Tail(value))

\* the hostnames of an allocation, in the order of the list view
HostPool == <<"node1", "node2", "node3", "node4", "node5", "node6",
              "node7", "node8", "node9">>

\* the lines drawn for config.sh
ConfigLines ==
    { ConfigLine("", "WEB_HOSTS"), ConfigLine("", "DB_HOST"),
      ConfigLine("readonly ", "WEB_HOSTS"), ConfigLine("", "WEB_PORT") }

RECURSIVE ConfigTexts(_)
ConfigTexts(n) ==
    IF n = 0 THEN {<< >>}
    ELSE LET shorter == ConfigTexts(n - 1) IN
         shorter \cup {Append(t, l) : t \in {s \in shorter : Len(s) = n - 1},
                                      l \in ConfigLines}

\* nothing logged by run's handler yet
NoLog == [logged |-> None, ex |-> None]

\* how the exception raised into run's loop is handled (run.py:154-159):
\* `except Exception` logs "failed to conduct test" and the exception
RunExcept(exc) == [logged |-> "failed to conduct test", ex |-> exc]

\* hostname_options = assign_hosts(test_config, experiment_hosts)
\* (run.py:212, 258-274); num_hosts // num_fields raises ZeroDivisionError
\* when no line matches
AssignHosts ==
    /\ asPc = "assign_hosts"
    /\ IF Len(HostFields(config_sh)) = 0
       THEN /\ asPc' = "ZeroDivisionError"
            /\ UNCHANGED <<assignments, hostname_options>>
       ELSE /\ assignments' = Assignments(config_sh, hosts)
            /\ hostname_options' =
                  [f \in DOMAIN assignments' |-> Join(assignments'[f])]
            /\ asPc' = "assigned"
    /\ UNCHANGED <<config_sh, hosts, asLog>>
    /\ UNCHANGED ctlVars /\ UNCHANGED <<sysVars, retryVars, execVars, provVars, expandVars>>

\* the exception leaves conduct_test, which has no handler around
\* run.py:208-212, and the retry loop, and is caught by run
ConductRaises ==
    /\ asPc = "ZeroDivisionError"
    /\ asLog' = RunExcept(asPc)
    /\ asPc' = "next_test"
    /\ UNCHANGED <<config_sh, hosts, assignments, hostname_options>>
    /\ UNCHANGED ctlVars /\ UNCHANGED <<sysVars, retryVars, execVars, provVars, expandVars>>

----------------------------------------------------------------------------
(* Specifications *)

\* the variables of flatten_tests and of assign_hosts while neither runs
ExpandIdle ==
    /\ xpPc = None
    /\ xpConfig = None
    /\ xpGlobals = << >>
    /\ xpMatrices = << >>
    /\ xpReplicas = << >>

AssignIdle ==
    /\ asPc = None
    /\ config_sh = << >>
    /\ hosts = << >>
    /\ assignments = << >>
    /\ hostname_options = << >>
    /\ asLog = NoLog


CtlInit ==
    /\ stopping = FALSE
    /\ stopRequested = FALSE
    /\ waiting = {}
    /\ notified = {}

\* the state of run() once `tests` is expanded and the driver is constructed
\* (run.py:92-118); m: max_concurrency
SysInit(m) ==
    /\ max_concurrency = m
    /\ mainPc = "login_lock"
    /\ testIdx = 1
    /\ current = retry(RunRetryCount, DefaultBackoff, "QUADRATIC")
    /\ thread_queue = << >>
    /\ threads = << >>
    /\ cloudlab_lock = {}
    /\ cloudlab_logger = log
    /\ old_logger = log
    /\ experiment = 0
    /\ experiments = << >>
    /\ sigPc = "none"
    /\ joinIdx = 1
    /\ exitVia = "none"

RetryInit(n, b, p) ==
    /\ rc = retry(n, b, p)
    /\ rcPc = "start"
    /\ rcYielded = 0
    /\ rcDelay = 0

\* execute is entered (test.py:214)
ExecInit ==
    /\ exPc = "outer_next"
    /\ exCurrent = retry(ExecuteRetryCount, DefaultBackoff, "QUADRATIC")
    /\ exStep = "terminal"
    /\ exInner = None
    /\ exSsh = "none"
    /\ exAttempts = 0
    /\ exSshAttempt = 0
    /\ exOpen = 0

\* login has not been called inside provision yet: no cursor of
\* cloudlab.py:62 exists
NoLogin ==
    [retry_count |-> 0, backoff_policy |-> None, backoff_duration |-> 0,
     index |-> -1, failure_msg |-> None, cause |-> None]

\* provision is entered (cloudlab.py:154-157); a: Cloudlab._authenticated
ProvInit(a) ==
    /\ pvPc = "next"
    /\ pvCurrent = retry(ProvisionRetryCount, DefaultBackoff, "QUADRATIC")
    /\ pvLogin = NoLogin
    /\ pvAuthenticated = a
    /\ pvSite = 0
    /\ pvExitRaised = FALSE
    /\ pvThen = None
    /\ pvExperiment = 0
    /\ pvStatus = None
    /\ pvSeen = {}
    /\ pvTerminated = 0
    /\ pvReported = FALSE
    /\ pvHostnames = None
    /\ executor_host = None
    /\ experiment_hosts = None

Init ==
    /\ CtlInit
    /\ RetryInit(RunRetryCount, DefaultBackoff, "QUADRATIC")
    /\ \E m \in 1..MaxConcurrency : SysInit(m)
    /\ ExecInit
    /\ ProvInit(TRUE)
    /\ ExpandIdle
    /\ AssignIdle

Next ==
    \/ LoginAcquire
    \/ \E o \in {"ok", "OperationFailed", "Exception", "ExitEarly"} : LoginReturn(o)
    \/ ForTest
    \/ RetryNext
    \/ BackoffReturn
    \/ JoinOldest
    \/ \E d \in BOOLEAN, c \in BOOLEAN : ConductTest(d, c)
    \/ ProvisionAcquire
    \/ \E o \in {"ok", "OperationFailed", "Exception", "ExitEarly"} : ProvisionReturn(o)
    \/ \E a \in BOOLEAN, w \in BOOLEAN : RenderConfig(a, w)
    \/ StartThread
    \/ AppendThread
    \/ ConductMissing
    \/ \E t \in Threads, o \in {"ok", "OperationFailed", "ExitEarly"} : Setup(t, o)
    \/ \E t \in Threads, o \in {"ok", "OperationFailed", "ExitEarly"} : Execute(t, o)
    \/ \E t \in Threads, o \in {"ok", "OperationFailed", "ExitEarly"} : TeardownTransfer(t, o)
    \/ \E t \in Threads : TeardownStopCheck(t)
    \/ \E t \in Threads : TeardownAcquire(t)
    \/ \E t \in Threads, o \in {"ok", "OperationFailed", "Exception"} : TeardownTerminate(t, o)
    \/ \E t \in Threads : CooldownReturn(t)
    \/ ExitGracefully
    \/ \E y \in BOOLEAN : PromptAnswer(y)
    \/ ForceHandler
    \/ ForceQuit
    \/ JoinAll
    \/ SysExit
    \/ ProcessExit

Spec == Init /\ [][Next]_vars

InitRetry ==
    /\ CtlInit
    /\ \E n \in 0..MaxRetryCount, b \in 0..MaxBackoff,
          p \in {"CONSTANT", "LINEAR", "QUADRATIC"} : RetryInit(n, b, p)
    /\ SysInit(1)
    /\ ExecInit
    /\ ProvInit(TRUE)
    /\ ExpandIdle
    /\ AssignIdle

NextRetry ==
    \/ RcNext
    \/ RcAgain
    \/ RcWaitReturn
    \/ \E m \in {None, "str", "exc"}, c \in {None, "exc"} : RcFailed(m, c)
    \/ RcReturn
    \/ RcStop

SpecRetry == InitRetry /\ [][NextRetry]_vars

\* the steps of the coordinating thread in run / conduct_test
MainNext ==
    \/ LoginAcquire
    \/ \E o \in {"ok", "OperationFailed", "Exception", "ExitEarly"} : LoginReturn(o)
    \/ ForTest
    \/ RetryNext
    \/ BackoffReturn
    \/ JoinOldest
    \/ \E d \in BOOLEAN, c \in BOOLEAN : ConductTest(d, c)
    \/ ProvisionAcquire
    \/ \E o \in {"ok", "OperationFailed", "Exception", "ExitEarly"} : ProvisionReturn(o)
    \/ \E a \in BOOLEAN, w \in BOOLEAN : RenderConfig(a, w)
    \/ StartThread
    \/ AppendThread
    \/ ConductMissing

\* the steps of lifecycle thread t
ThreadNext(t) ==
    /\ t \in Threads
    /\ \/ \E o \in {"ok", "OperationFailed", "ExitEarly"} : Setup(t, o)
       \/ \E o \in {"ok", "OperationFailed", "ExitEarly"} : Execute(t, o)
       \/ \E o \in {"ok", "OperationFailed", "ExitEarly"} : TeardownTransfer(t, o)
       \/ TeardownStopCheck(t)
       \/ TeardownAcquire(t)
       \/ \E o \in {"ok", "OperationFailed", "Exception"} : TeardownTerminate(t, o)
       \/ CooldownReturn(t)

\* Python runs every thread that is not blocked: the coordinating thread and
\* each started lifecycle thread take their next step when it stays enabled.
\* Calls on the driver, scp / ssh stages and timed waits are taken to return.
Fairness ==
    /\ WF_vars(MainNext)
    /\ \A t \in 1..NumTests : WF_vars(ThreadNext(t))
    /\ WF_vars(ProcessExit)

\* a run in which no SIGINT is delivered
NextRun ==
    \/ MainNext
    \/ \E t \in 1..NumTests : ThreadNext(t)
    \/ ProcessExit

SpecFair == Init /\ [][NextRun]_vars /\ Fairness

InitExecute ==
    /\ CtlInit
    /\ RetryInit(RunRetryCount, DefaultBackoff, "QUADRATIC")
    /\ SysInit(1)
    /\ ExecInit
    /\ ProvInit(TRUE)
    /\ ExpandIdle
    /\ AssignIdle

NextExecute ==
    \/ ExOuterNext
    \/ ExOuterWaitReturn
    \/ ExStepBegin
    \/ ExInnerNext
    \/ ExInnerWaitReturn
    \/ \E o \in {"ok", "soft", "hard"} : ExInnerAttempt(o)
    \/ \E o \in {"ok", "hard"} : ExScript(o)

SpecExecute == InitExecute /\ [][NextExecute]_vars

\* provision is entered with either value wait() can read from
\* control.stopping: its handling of ExitEarly is written for the value TRUE
InitProvision ==
    /\ stopping \in BOOLEAN
    /\ stopRequested = stopping
    /\ waiting = {}
    /\ notified = {}
    /\ RetryInit(RunRetryCount, DefaultBackoff, "QUADRATIC")
    /\ SysInit(1)
    /\ ExecInit
    /\ \E a \in BOOLEAN : ProvInit(a)
    /\ ExpandIdle
    /\ AssignIdle

NextProvision ==
    \/ PvNext
    \/ PvWaitReturn
    \/ PvAuth
    \/ PvLoginNext
    \/ PvLoginWaitReturn
    \/ \E o \in {"dashboard", "unknown", "form_error", "still_login", "Exception"} :
          PvLoginAttempt(o)
    \/ \E o \in {"ok", "login", "Exception"} : PvPage(o)
    \/ \E o \in {"ok", "failed"} : PvInstantiate(o)
    \/ \E o \in {"ok", "not_logged_in", "failed"} : PvStatusPage(o)
    \/ \E o \in Status \cup {"Exception"} : PvExperiment(o)
    \/ \E o \in Status \cup {"present"} : PvPoll(o)
    \/ PvPollFailed
    \/ \E a \in BOOLEAN : PvSafeTerminate(a)
    \/ \E o \in {"ok", "failed"} : PvListview(o)
    \/ \E c \in SshCommandLists : PvHostnames(c)
    \/ PvConductHosts

SpecProvision == InitProvision /\ [][NextProvision]_vars

\* what a step of provision moves: its position, its cursor, what it read
pvProgress ==
    <<pvPc, pvCurrent, pvAuthenticated, pvExperiment, pvStatus, pvSeen, pvTerminated>>

\* provision runs on one thread, which takes its next step whenever it has
\* one: every call on the driver and every timed wait returns
SpecProvisionFair ==
    InitProvision /\ [][NextProvision]_vars /\ WF_pvProgress(NextProvision)

\* flatten_tests is entered with a configuration (run.py:92, 282-283)
InitExpand ==
    /\ CtlInit
    /\ RetryInit(RunRetryCount, DefaultBackoff, "QUADRATIC")
    /\ SysInit(1)
    /\ ExecInit
    /\ ProvInit(TRUE)
    /\ AssignIdle
    /\ xpPc = "flatten_globals"
    /\ xpConfig \in Configs
    /\ xpGlobals = << >>
    /\ xpMatrices = << >>
    /\ xpReplicas = << >>

NextExpand ==
    \/ FlattenGlobals
    \/ FlattenMatrices
    \/ FlattenReplicas

SpecExpand == InitExpand /\ [][NextExpand]_vars

\* conduct_test reaches run.py:212 with the text of config.sh and the hosts
\* after the executor host
InitAssign ==
    /\ CtlInit
    /\ RetryInit(RunRetryCount, DefaultBackoff, "QUADRATIC")
    /\ SysInit(1)
    /\ ExecInit
    /\ ProvInit(TRUE)
    /\ ExpandIdle
    /\ asPc = "assign_hosts"
    /\ config_sh \in ConfigTexts(MaxLines)
    /\ \E h \in 0..MaxHosts : hosts = SubSeq(HostPool, 1, h)
    /\ assignments = [f \in {} |-> << >>]
    /\ hostname_options = [f \in {} |-> << >>]
    /\ asLog = NoLog

NextAssign ==
    \/ AssignHosts
    \/ ConductRaises

SpecAssign == InitAssign /\ [][NextAssign]_vars

----------------------------------------------------------------------------
(* Properties *)

\* lifecycles started and not yet finished
Running == {t \in Threads : ~Finished(t)}

\* units inside a login, provision or terminate call on the shared driver
InCall ==
    (IF mainPc \in {"login", "provisioning"} THEN {MainUnit} ELSE {})
    \cup {t \in Threads : threads[t].pc = "terminating"}

\* the experiment owned by thread t
ExperimentOf(t) == experiments[threads[t].experiment]

\* C1: every lifecycle that has finished while no stop was requested, however
\* it finished, has invoked terminate on its experiment exactly once.
C1_TerminateOnEveryExit ==
    \A t \in Threads :
        (Finished(t) /\ ~stopRequested) => ExperimentOf(t).terminate_calls = 1

\* C2: at most max_concurrency lifecycles are started and unfinished; conduct
\* runs past its checks only with fewer than max_concurrency handles queued;
\* a handle that left the queue was joined (its thread has finished): only
\* the thread just started, which an exit may keep conduct_test from ever
\* appending, is outside the queue unfinished.
C2_BoundedConcurrency ==
    /\ Cardinality(Running) <= max_concurrency
    /\ mainPc \in {"provision_lock", "provisioning", "render", "start", "append"}
          => Len(thread_queue) < max_concurrency
    /\ \A t \in Threads :
          (\A i \in 1..Len(thread_queue) : thread_queue[i] # t)
              => \/ Finished(t)
                 \/ t = Len(threads) /\ (mainPc = "append" \/ exitVia = "quit")

C2_Witness ==
    /\ mainPc = "join_loop"
    /\ AtCapacity
    /\ Cardinality(Running) = max_concurrency
    /\ testIdx = 2

\* C3: at most one unit is inside a login, provision or terminate call, every
\* unit inside such a call holds cloudlab_lock, and the lock has at most one
\* holder.
C3_MutualExclusion ==
    /\ Cardinality(InCall) <= 1
    /\ InCall \subseteq cloudlab_lock
    /\ Cardinality(cloudlab_lock) <= 1

C3_Witness ==
    /\ mainPc = "provisioning"
    /\ \E t \in Threads : threads[t].pc = "lock_wait"

\* C4: a retry cursor never yields more than retry_count handles, and when
\* its advance raises OperationFailed it has yielded exactly retry_count.
C4_ExactlyNAttempts ==
    /\ rcYielded <= rc.retry_count
    /\ rcPc = "OperationFailed" => rcYielded = rc.retry_count

C4_Witness ==
    /\ rcPc = "OperationFailed"
    /\ rc.retry_count = 3
    /\ rcYielded = 3
    /\ rc.cause = "exc"

\* C5: a cursor whose backoff wait was woken by stop() raises ExitEarly when
\* the wait returns; it yields no further handle.
C5_StopEndsTheWait ==
    (MainUnit \in notified /\ rcPc # "waiting") => rcPc = "ExitEarly"

\* C6: while no stop was requested, every experiment that is still
\* provisioned is the one the running conduct_test call holds or is owned by
\* a started lifecycle.
C6_NoOrphanExperiment ==
    ~stopRequested =>
        \A e \in 1..Len(experiments) :
            experiments[e].status = "live" =>
                \/ e = experiment
                \/ \E t \in Threads : threads[t].experiment = e

\* C7: join_all has moved past a handle only once its lifecycle finished, so
\* sys.exit is reached with every queued lifecycle finished, and the process
\* that join_then_quit ends has exited only with every started lifecycle
\* finished.
C7_ExitAfterJoin ==
    /\ sigPc = "join_all" =>
          \A i \in 1..Len(thread_queue) : i < joinIdx => Finished(thread_queue[i])
    /\ (exitVia = "quit" /\ mainPc = "exited") => Running = {}

C7_Witness ==
    /\ exitVia = "quit"
    /\ mainPc = "exited"
    /\ Len(thread_queue) = 2
    /\ \E t \in Threads : threads[t].pc = "failed"
    /\ \E t \in Threads : threads[t].pc = "done"

\* C8: once stop was requested no unit acquires cloudlab_lock.
C8_NoAcquireAfterStop ==
    [][stopRequested => cloudlab_lock' \subseteq cloudlab_lock]_vars

\* C9: during a guarded provision or terminate call the driver's logger is
\* the caller's logger, and when the call is left, by return or by any
\* exception, the driver's logger is the one installed before the call.
C9_LoggerInstalledAndRestored ==
    /\ [](/\ mainPc = "provisioning" => cloudlab_logger = TestLogger(testIdx)
          /\ \A t \in Threads :
                threads[t].pc = "terminating" => cloudlab_logger = ThreadLogger(t))
    /\ [][/\ (mainPc = "provisioning" /\ mainPc' # "provisioning")
                => cloudlab_logger' = old_logger
          /\ \A t \in Threads :
                (threads[t].pc = "terminating" /\ threads'[t].pc # "terminating")
                    => cloudlab_logger' = threads[t].old_logger]_vars

C9_Witness ==
    \E t \in Threads :
        /\ threads[t].pc = "cooldown"
        /\ ExperimentOf(t).status = "live"
        /\ ExperimentOf(t).terminate_calls = 1
        /\ cloudlab_logger = threads[t].old_logger
        /\ cloudlab_logger # ThreadLogger(t)

\* C10: whatever the guarded terminate call does, teardown leaves it with
\* the lock released and blocked in its cooldown wait; no thread dies of an
\* exception raised by terminate.
C10_TerminateNeverPropagates ==
    /\ [](\A t \in Threads : threads[t].pc # "crashed")
    /\ [][\A t \in Threads :
            (threads[t].pc = "terminating" /\ threads'[t].pc # "terminating")
                => /\ threads'[t].pc = "cooldown"
                   /\ t \notin cloudlab_lock'
                   /\ t \in waiting']_vars

C10_Witness ==
    \E t \in Threads :
        /\ threads[t].pc = "done"
        /\ ExperimentOf(t).status = "live"
        /\ ExperimentOf(t).terminate_calls = 1

Stage(pc) ==
    CASE pc = "setup" -> "Setup"
      [] pc = "execute" -> "Execute"
      [] pc \in {"teardown", "stop_check", "lock_wait", "terminating", "cooldown"}
            -> "Teardown"
      [] pc = "done" -> "Done"
      [] pc = "failed" -> "Failed"
      [] pc = "early" -> "EarlyExit"
      [] OTHER -> "Crashed"

\* the stage changes the state machine allows
StageOrder ==
    {<<"Setup", "Execute">>, <<"Execute", "Teardown">>, <<"Teardown", "Done">>}
    \cup ({"Setup", "Execute", "Teardown"} \X {"Failed", "EarlyExit"})

\* C12: a lifecycle starts in Setup and changes stage only from Setup to
\* Execute, from Execute to Teardown and from Teardown to Done, or from one of
\* these three to Failed or EarlyExit.
C12_StageOrder ==
    /\ [][\A t \in 1..Len(threads') :
            IF t \in Threads
            THEN \/ Stage(threads'[t].pc) = Stage(threads[t].pc)
                 \/ <<Stage(threads[t].pc), Stage(threads'[t].pc)>> \in StageOrder
            ELSE Stage(threads'[t].pc) = "Setup"]_vars

C12_Witness ==
    /\ \E t \in Threads : threads[t].pc = "done"
    /\ \E t \in Threads : threads[t].pc = "failed"

\* C13: a stage that raises OperationFailed or ExitEarly ends the thread in
\* run()'s except clauses: the thread is finished, the step changes neither
\* the coordinator nor another thread, and a join the scheduler is blocked in
\* on that thread can return.
C13_FailureEndsOnlyTheUnit ==
    /\ [](\A t \in Threads : threads[t].pc # "crashed")
    /\ [][\A t \in Threads :
            (/\ threads[t].pc \in {"setup", "execute", "teardown"}
             /\ threads'[t].pc \notin {"setup", "execute", "teardown", "stop_check"})
                => /\ threads'[t].pc \in {"failed", "early"}
                   /\ \A u \in Threads \ {t} : threads'[u] = threads[u]
                   /\ UNCHANGED <<mainPc, testIdx, current, thread_queue,
                                  exitVia, sigPc>>]_vars
    /\ []((/\ MainRuns /\ mainPc = "join_loop" /\ AtCapacity
           /\ threads[Head(thread_queue)].pc \in {"failed", "early"})
              => ENABLED JoinOldest)

C13_Witness ==
    /\ MainRuns /\ mainPc = "join_loop" /\ AtCapacity
    /\ threads[Head(thread_queue)].pc = "failed"
    /\ testIdx = 2

\* C14: execute raises OperationFailed only after ExecuteRetryCount attempts
\* of the stage; an attempt ends by the return of execute or by one failure
\* recorded on the outer cursor, and every attempt starts at terminal() and
\* works on a session created in that attempt.
C14_ExecuteRetriesWholeStage ==
    /\ [](/\ exAttempts <= ExecuteRetryCount
          /\ exPc = "OperationFailed" =>
                (exAttempts = ExecuteRetryCount /\ exCurrent.index = ExecuteRetryCount)
          /\ InAttempt => exAttempts = exCurrent.index + 1
          /\ (InAttempt /\ exPc # "step" /\ exStep = "terminal") =>
                (exSsh = "new" /\ exSshAttempt = exAttempts)
          /\ (InAttempt /\ exStep # "terminal") =>
                (exSsh = "open" /\ exSshAttempt = exAttempts))
    /\ [][(InAttempt /\ ~InAttempt') =>
            \/ exPc' = "returned"
            \/ /\ exPc' = "outer_next"
               /\ exCurrent'.index = exCurrent.index
               /\ exCurrent'.cause = "exc"]_vars
    /\ [][(~InAttempt /\ InAttempt') =>
            /\ exAttempts' = exAttempts + 1
            /\ exPc' = "step" /\ exStep' = "terminal"]_vars

C14_Witness ==
    /\ exPc = "OperationFailed"
    /\ exAttempts = ExecuteRetryCount
    /\ exOpen > 0

C16_MissingIsHandled ==
    /\ [](mainPc = "missing" => MainUnit \notin cloudlab_lock)
    /\ [][(mainPc = "missing" /\ mainPc' # "missing" /\ sigPc = "none") =>
            /\ mainPc' = "for_test"
            /\ testIdx' = testIdx + 1
            /\ UNCHANGED <<current, experiments, cloudlab_lock, threads,
                           thread_queue>>]_vars

C16_Witness ==
    /\ mainPc = "for_test" /\ testIdx = 2
    /\ current.index = 0
    /\ experiments = << >> /\ threads = << >>

C18_StartOrder ==
    /\ [](\A t \in Threads : threads[t].test <= testIdx)
    /\ [](\A i, j \in Threads : i < j => threads[i].test <= threads[j].test)
    /\ [][testIdx' \in {testIdx, testIdx + 1}]_vars

C18_Witness ==
    \E i, j \in Threads :
        /\ i < j
        /\ threads[i].pc = "setup"
        /\ threads[j].pc = "done"

\* C19: no two lifecycles belong to the same unit; a conduct attempt that
\* reports failure has started no lifecycle for the unit, and the attempt
\* that started one is followed by the next unit.
C19_AtMostOneLifecycle ==
    /\ [](\A i, j \in Threads : i # j => threads[i].test # threads[j].test)
    /\ [][(mainPc' = "retry_next" /\ mainPc \notin {"retry_next", "for_test"}) =>
            /\ threads' = threads
            /\ \A t \in Threads : threads[t].test # testIdx]_vars
    /\ [][(mainPc = "append" /\ mainPc' # "append" /\ sigPc = "none") =>
            (mainPc' = "for_test" /\ testIdx' = testIdx + 1)]_vars

C19_Witness ==
    /\ mainPc = "append"
    /\ current.index >= 1
    /\ \E t \in Threads : threads[t].test = testIdx

\* C20: once a second interrupt has entered force_handler during the prompt,
\* the handler's next step is join_then_quit (stop, then the joins); the
\* prompt's answer is neither awaited nor accepted any more.
C20_SecondInterruptForcesShutdown ==
    /\ [][sigPc = "forced" =>
            \/ sigPc' = "forced"
            \/ sigPc' = "join_all" /\ stopRequested' /\ joinIdx' = 1]_vars
    /\ [](sigPc = "forced" =>
            /\ ENABLED ForceQuit
            /\ ~ENABLED (\E y \in BOOLEAN : PromptAnswer(y)))

C20_Witness ==
    /\ sigPc = "forced"
    /\ ~stopRequested
    /\ \E t \in Threads : ~Finished(t)

\* the polling loop ended on a status that is neither ready nor one it keeps
\* waiting on
PollEndedBadly == pvStatus \notin KeepWaiting \cup {"ready"}

RECURSIVE Pow10(_)
Pow10(n) == IF n = 0 THEN 1 ELSE 10 * Pow10(n - 1)

\* the numeral of j with exactly w digits, for j < 10^w
Numeral(j, w) == [k \in 1..w |-> DigitChars[((j \div Pow10(w - k)) % 10) + 1]]

\* the value of a text of digits: the sum of digit * 10^position
DigitValue(c) == (CHOOSE d \in 1..10 : DigitChars[d] = c) - 1

RECURSIVE PositionalSum(_, _)
PositionalSum(digits, k) ==
    IF k > Len(digits) THEN 0
    ELSE DigitValue(digits[k]) * Pow10(Len(digits) - k) + PositionalSum(digits, k + 1)

\* the replica numbers j for which a file {b}-{j}.tar.gz is among the
\* result files; the basenames are without the extension
FilesFor(b) ==
    {f \in xpConfig.files :
        /\ Len(f) > Len(b) + 1
        /\ SubSeq(f, 1, Len(b) + 1) = b \o <<"-">>
        /\ \A k \in (Len(b) + 2)..Len(f) : IsDigit(f[k])}

CompletionIndex(b) ==
    {PositionalSum(SubSeq(f, Len(b) + 2, Len(f)), 1) : f \in FilesFor(b)}

\* W = max(2, number of digits of the largest replica count)
PadWidth ==
    CHOOSE w \in 2..5 :
        /\ \A s \in 1..Len(xpMatrices) : Get(xpMatrices[s].replicas, 1) < Pow10(w)
        /\ w > 2 => \E s \in 1..Len(xpMatrices) :
                       Get(xpMatrices[s].replicas, 1) >= Pow10(w - 1)

RECURSIVE SumUpTo(_, _)
SumUpTo(sizes, s) == IF s = 0 THEN 0 ELSE SumUpTo(sizes, s - 1) + sizes[s]

\* C23: the replica list holds, spec after spec and in ascending j, exactly
\* one TestReplica for every j in [completed, replicas) that has no result
\* file for (base id, j), and nothing else; its identifier is the base id,
\* "-", and j written with W digits, W = max(2, digits of the largest
\* replica count of any spec).
C23_ReplicasOwedAreEmitted ==
    xpPc = "returned" =>
        LET R(s) == Get(xpMatrices[s].replicas, 1)
            c(s) == Get(xpMatrices[s].completed, 0)
            done == [s \in 1..Len(xpMatrices) |->
                        CompletionIndex(xpMatrices[s].id) \cap (c(s)..(R(s) - 1))]
            sizes == [s \in 1..Len(xpMatrices) |->
                        (IF R(s) > c(s) THEN R(s) - c(s) ELSE 0)
                          - Cardinality(done[s])]
            W == PadWidth
        IN /\ Len(xpReplicas) = SumUpTo(sizes, Len(xpMatrices))
           /\ \A s \in 1..Len(xpMatrices) :
                 \A j \in (c(s)..(R(s) - 1)) \ done[s] :
                    LET r == xpReplicas[SumUpTo(sizes, s - 1) + 1 + (j - c(s))
                                          - Cardinality({k \in done[s] : k < j})]
                    IN /\ r.id = xpMatrices[s].id \o <<"-">> \o Numeral(j, W)
                       /\ r.options = xpMatrices[s].options

C23_Witness ==
    /\ xpPc = "returned"
    /\ Len(xpMatrices) = 2
    /\ xpMatrices[1].replicas = <<2>> /\ xpMatrices[1].completed = << >>
    /\ xpMatrices[2].replicas = <<ManyReplicas>>
    /\ <<"a", "-", "0", "0">> \in xpConfig.files
    /\ Len(xpReplicas) > 1
    /\ xpReplicas[1].id = <<"a", "-", "0", "0", "1">>

\* C24 as stated: the replica list holds no identifier twice.
C24_IdentifiersUnique ==
    xpPc = "returned" =>
        \A i, j \in 1..Len(xpReplicas) :
            xpReplicas[i].id = xpReplicas[j].id => i = j

\* C25 as stated: after the global merge a key that is in the global options
\* and in the test set's options has the test set's value, and a key that is
\* in one of the two only has the value it has there.
C25_TestSetKeysWin ==
    xpPc \in {"flatten_matrices", "flatten_replicas", "returned"} =>
        \A i \in 1..Len(xpConfig.tests) :
            LET own == xpConfig.tests[i].options
                global == xpConfig.options
                merged == xpGlobals[i].options
            IN /\ DOMAIN merged = DOMAIN own \cup DOMAIN global
               /\ \A k \in DOMAIN own : merged[k] = own[k]
               /\ \A k \in DOMAIN global \ DOMAIN own : merged[k] = global[k]

\* the dimensions of the spec that have values, by position
AppliedDimensions(spec) ==
    {d \in 1..Len(spec.matrix) : spec.matrix[d].values # << >>}

\* the ways to pick one id-bearing value-entry in every applied dimension
LongestValues(spec) ==
    LET lengths == {Len(spec.matrix[d].values) : d \in 1..Len(spec.matrix)} \cup {0}
    IN CHOOSE n \in lengths : \A m \in lengths : m <= n

Choices(spec) ==
    {c \in [AppliedDimensions(spec) -> 1..LongestValues(spec)] :
        \A d \in AppliedDimensions(spec) :
            /\ c[d] <= Len(spec.matrix[d].values)
            /\ spec.matrix[d].values[c[d]].id # << >>}

ChosenEntry(spec, c, d) == spec.matrix[d].values[c[d]]

\* base id, then "-" and the chosen value id of every applied dimension up
\* to the d-th, in declared order
RECURSIVE ChosenId(_, _, _)
ChosenId(spec, c, d) ==
    IF d = 0 THEN spec.id
    ELSE ChosenId(spec, c, d - 1)
           \o (IF d \in AppliedDimensions(spec)
               THEN <<"-">> \o ChosenEntry(spec, c, d).id ELSE << >>)

\* the dimensions whose chosen value-entry sets option k
Setters(spec, c, k) ==
    {d \in AppliedDimensions(spec) : k \in DOMAIN ChosenEntry(spec, c, d).options}

LastSetter(spec, c, k) ==
    CHOOSE d \in Setters(spec, c, k) : \A e \in Setters(spec, c, k) : e <= d

\* C26: every result of the matrix expansion comes from one spec and one
\* choice of value-entries: its identifier is the base id followed by
\* "-{value_id}" for every applied dimension in declared order, and every
\* option has the value of the last declared dimension whose chosen entry
\* sets it, or else the value it had after the global merge.
C26_IdOrderAndLaterDimensionWins ==
    xpPc \in {"flatten_replicas", "returned"} =>
        \A i \in 1..Len(xpMatrices) :
            \E s \in 1..Len(xpGlobals) :
                \E c \in Choices(xpGlobals[s]) :
                    LET spec == xpGlobals[s]
                        r == xpMatrices[i]
                    IN /\ r.id = ChosenId(spec, c, Len(spec.matrix))
                       /\ DOMAIN r.options =
                             DOMAIN spec.options \cup
                             {k \in OptionKeys : Setters(spec, c, k) # {}}
                       /\ \A k \in DOMAIN r.options :
                             r.options[k] =
                                IF Setters(spec, c, k) # {}
                                THEN ChosenEntry(spec, c, LastSetter(spec, c, k)).options[k]
                                ELSE spec.options[k]

C26_Witness ==
    /\ xpPc = "returned"
    /\ \E i \in 1..Len(xpMatrices) :
          /\ xpMatrices[i].id = <<"a", "-", "y", "-", "x">>
          /\ "k1" \in DOMAIN xpMatrices[i].options
          /\ xpMatrices[i].options["k1"] = OptionValue("matrix", 1, <<"y">>)
          /\ "k2" \in DOMAIN xpMatrices[i].options
          /\ xpMatrices[i].options["k2"] = OptionValue("matrix", 2, <<"x">>)
    /\ DOMAIN xpConfig.options = OptionKeys
    /\ DOMAIN xpConfig.tests[1].options = OptionKeys

\* number of results of the specs before the s-th
RECURSIVE ResultsBefore(_)
ResultsBefore(s) ==
    IF s = 1 THEN 0
    ELSE ResultsBefore(s - 1) + Cardinality(Choices(xpGlobals[s - 1]))

DeclaredFields ==
    LET matched == SelectSeq(config_sh, LAMBDA l : l.key \in HostKeys) IN
    [i \in 1..Len(matched) |-> <<matched[i].readonly, matched[i].key>>]

FieldsDistinct ==
    \A i, j \in 1..Len(DeclaredFields) :
        DeclaredFields[i] = DeclaredFields[j] => i = j

\* value is the hosts of host_list joined by single spaces
JoinedBySpaces(value, host_list) ==
    /\ Len(value) = IF host_list = << >> THEN 0 ELSE 2 * Len(host_list) - 1
    /\ \A k \in 1..Len(value) :
          value[k] = IF k % 2 = 1 THEN host_list[(k + 1) \div 2] ELSE " "

\* C28: with H hosts and F >= 1 matched fields of distinct names, the i-th
\* declared field (from 0) gets H // F hosts, and one more exactly when
\* i < H % F, as the run of the host list that follows the runs of the
\* fields before it; the runs cover the host list from its first to its
\* last host, so every host is in exactly one field.
C28_EvenOrderedPartition ==
    (asPc = "assigned" /\ FieldsDistinct) =>
        LET F == Len(DeclaredFields)
            H == Len(hosts)
            size(i) == (H \div F) + (IF i < H % F THEN 1 ELSE 0)
            start(i) == i * (H \div F) + (IF i < H % F THEN i ELSE H % F)
        IN /\ DOMAIN assignments = {DeclaredFields[i] : i \in 1..F}
           /\ DOMAIN hostname_options = DOMAIN assignments
           /\ \A i \in 0..(F - 1) :
                 /\ assignments[DeclaredFields[i + 1]] =
                       SubSeq(hosts, start(i) + 1, start(i) + size(i))
                 /\ JoinedBySpaces(hostname_options[DeclaredFields[i + 1]],
                                   assignments[DeclaredFields[i + 1]])
           /\ start(0) = 0
           /\ start(F - 1) + size(F - 1) = H

C28_Witness ==
    /\ asPc = "assigned"
    /\ FieldsDistinct
    /\ Len(DeclaredFields) = 3
    /\ Len(config_sh) = 4
    /\ Len(hosts) = 7
    /\ Len(assignments[DeclaredFields[1]]) = 3
    /\ Len(assignments[DeclaredFields[2]]) = 2
    /\ assignments[DeclaredFields[3]] = <<"node6", "node7">>

\* C29 as stated: whatever lines match, a name matched on several lines
\* counting once, every host is assigned to exactly one field.
C29_RepeatedFieldCountedOnce ==
    asPc = "assigned" =>
        \A h \in 1..Len(hosts) :
            \E f \in DOMAIN assignments :
                /\ \E k \in 1..Len(assignments[f]) : assignments[f][k] = hosts[h]
                /\ \A g \in DOMAIN assignments :
                      (\E k \in 1..Len(assignments[g]) : assignments[g][k] = hosts[h])
                         => g = f

\* C30 as stated: with no matching host field the assignment does not end in
\* a division by zero, and what is logged for the unit is not one either.
C30_NoFieldIsAConfigurationError ==
    /\ asPc # "ZeroDivisionError"
    /\ asLog.ex # "ZeroDivisionError"

----------------------------------------------------------------------------
(* retry cursors: delays, waits, exhaustion *)

\* the quadratic delay built up from index 0 by its successive increments
RECURSIVE QuadraticSteps(_, _)
QuadraticSteps(i, base) ==
    IF i = 0 THEN base * FactorDen
    ELSE QuadraticSteps(i - 1, base) + base * FactorNum * (2 * i - 1)

\* C31: the delay a cursor waits at index i is base for CONSTANT, base*(1+f*i)
\* for LINEAR(f) and base*(1+f*i^2) for QUADRATIC(f) (all times FactorDen, with
\* f = FactorNum/FactorDen), and the quadratic delay never decreases with i.
C31_BackoffFormulas ==
    LET b == rc.backoff_duration
        i == rc.index
    IN  /\ rcPc = "waiting" =>
              /\ rc.backoff_policy = "CONSTANT" => rcDelay = b * FactorDen
              /\ rc.backoff_policy = "LINEAR" =>
                     rcDelay = b * FactorDen + i * (b * FactorNum)
              /\ rc.backoff_policy = "QUADRATIC" => rcDelay = QuadraticSteps(i, b)
        /\ \A j \in 0..MaxRetryCount :
              BackoffPolicy("QUADRATIC", j, b) <= BackoffPolicy("QUADRATIC", j + 1, b)

C31_Witness ==
    /\ rcPc = "waiting"
    /\ rc.backoff_policy = "QUADRATIC"
    /\ rc.backoff_duration = 2
    /\ rc.index = 3
    /\ rcDelay = 2 * FactorDen + 9 * 2 * FactorNum

\* C32: the handle of index 0 is returned straight from the first advance;
\* a handle of index i >= 1 is returned only from the one wait of
\* BackoffPolicy(i, base) its advance began, and that advance cleared the
\* recorded failure; the advance that raises OperationFailed does not wait.
\* So waits happen at indices 1..N-1 only, and never when N = 1.
C32_OneWaitBeforeEachLaterHandle ==
    /\ [](rcPc = "waiting" =>
            /\ rc.index >= 1
            /\ rc.index <= rc.retry_count - 1
            /\ rc.failure_msg = None
            /\ rc.cause = None)
    /\ [][/\ (rcYielded' # rcYielded /\ rc'.index = 0) =>
                (rcPc = "start" /\ rcDelay' = 0 /\ waiting' = waiting)
          /\ (rcYielded' # rcYielded /\ rc'.index >= 1) =>
                /\ rcPc = "waiting"
                /\ rc' = rc
                /\ rcDelay = BackoffPolicy(rc.backoff_policy, rc.index,
                                           rc.backoff_duration)
                /\ rc'.failure_msg = None
                /\ rc'.cause = None
          /\ (rcPc' = "waiting" /\ rcPc # "waiting") =>
                (rc'.index = rc.index + 1 /\ rcYielded' = rcYielded)
          /\ (rcPc' = "OperationFailed") =>
                (rcPc # "waiting" /\ waiting' = waiting /\ rcDelay' = rcDelay)
         ]_vars

C32_Witness ==
    /\ rcPc = "body"
    /\ rc.retry_count = 3
    /\ rc.index = 2
    /\ rcYielded = 3
    /\ rcDelay = BackoffPolicy(rc.backoff_policy, 2, rc.backoff_duration)
    /\ rcDelay > 0
    /\ rc.failure_msg = None
    /\ rc.cause = None

\* C33: every advance of a cursor adds one to its index and nothing ever
\* lowers it; a cursor returns at most retry_count handles; after an advance
\* raised OperationFailed every further advance raises OperationFailed; and
\* an advance has consumed its index before its wait is over, whatever the
\* wait then reports.
C33_NonRestartable ==
    /\ [](/\ rcYielded <= rc.retry_count
          /\ rcPc \in {"waiting", "ExitEarly"} => rc.index = rcYielded
          /\ rcPc = "OperationFailed" => rc.index >= rc.retry_count)
    /\ [][/\ rc'.index >= rc.index
          /\ rc'.index # rc.index => rc'.index = rc.index + 1
          /\ rcPc = "OperationFailed" =>
                (rcPc' = "OperationFailed" /\ rcYielded' = rcYielded)
         ]_vars

C33_Witness ==
    /\ rcPc = "OperationFailed"
    /\ rc.retry_count = 2
    /\ rcYielded = 2
    /\ rc.index = rc.retry_count + 2

----------------------------------------------------------------------------
(* execute: remote sessions *)

\* C34 as stated: when an attempt of execute has ended in a failure, the
\* session it opened is closed by the time the failure is on the cursor; a
\* lifecycle has at most one open session and none once execute is over.
C34_SessionClosedBeforeFailure ==
    /\ exOpen <= 1
    /\ exPc \in {"outer_next", "outer_wait"} => exSsh # "open"
    /\ exPc \in {"returned", "OperationFailed", "ExitEarly"} => exOpen = 0

----------------------------------------------------------------------------
(* provision: cleaning up after a created experiment *)

\* positions of an attempt after the Experiment Status page was reached
PostCreation ==
    {"experiment", "poll", "poll_failed", "safe_terminate", "listview", "hostnames"}

\* positions in which the attempt is over without an Experiment returned
AttemptFailed == {"next", "Exception", "OperationFailed", "ExitEarly"}

\* C35 as stated: an attempt that reached the Experiment Status page ends
\* without returning only after safe_terminate was called for the experiment
\* it created.
C35_EveryFailureTerminates ==
    [][(pvPc \in PostCreation /\ pvPc' \in AttemptFailed) =>
          \/ pvPc = "safe_terminate"
          \/ pvPc # "experiment" /\ pvTerminated >= 1]_vars

----------------------------------------------------------------------------
(* shutdown *)

\* join_all, running in the signal handler on the coordinating thread, is at
\* a lifecycle that waits for cloudlab_lock while the interrupted frame of
\* the coordinating thread holds it
JoinBlockedOnGuard ==
    /\ sigPc = "join_all"
    /\ joinIdx <= Len(thread_queue)
    /\ threads[thread_queue[joinIdx]].pc = "lock_wait"
    /\ MainUnit \in cloudlab_lock

\* C36 as stated: join_then_quit is never in a position where the join it is
\* at cannot return: no lifecycle it joins waits for a guard that only the
\* interrupted coordinating thread can release.
C36_ShutdownNeverStuck == ~JoinBlockedOnGuard

----------------------------------------------------------------------------
(* stop requests and the driver's logger *)

\* C37 as stated: a cooldown wait that a lifecycle began after stop() was
\* called (so it was not woken by it) reports the stop when it returns:
\* teardown raises ExitEarly instead of finishing normally.
C37_StopNeverLost ==
    [][\A t \in Threads :
          (/\ threads[t].pc = "cooldown"
           /\ stopRequested
           /\ t \notin notified
           /\ threads'[t].pc # "cooldown")
              => threads'[t].pc = "early"]_vars

\* C38: whenever cloudlab_lock is free the driver's logger is the default
\* logger the driver was constructed with, whatever guarded calls the
\* coordinating thread and the lifecycles have made before.
C38_DefaultLoggerWhenGuardFree ==
    cloudlab_lock = {} => cloudlab_logger = log

C38_Witness ==
    /\ cloudlab_lock = {}
    /\ cloudlab_logger = log
    /\ Len(experiments) = 2
    /\ \E t, u \in Threads :
          /\ t # u
          /\ threads[t].pc = "done" /\ ExperimentOf(t).terminate_calls = 1
          /\ threads[u].pc = "cooldown" /\ ExperimentOf(u).terminate_calls = 1

----------------------------------------------------------------------------
(* provision: termination *)

\* provision is over: it returned an Experiment (which conduct_test then
\* uses) or an exception left it
ProvisionOver ==
    pvPc \in {"returned", "assign_hosts", "IndexError",
              "OperationFailed", "ExitEarly", "Exception"}

\* C39 as stated: every provision call is eventually over; the polling loop
\* does not go on forever while the status is created, provisioning or
\* booting.
C39_ProvisionTerminates == <>ProvisionOver

----------------------------------------------------------------------------
(* matrix expansion: no test set is lost *)

\* the id `expanded` was built from the id of `test_set` by appending
\* value ids
ExpandedFrom(expanded, test_set) ==
    /\ Len(expanded.id) >= Len(test_set.id)
    /\ SubSeq(expanded.id, 1, Len(test_set.id)) = test_set.id

\* C40 as stated: after flatten_matrices every test set with a non-empty id
\* has at least one expanded test, at least as many tests come out as went
\* in, and flatten_replicas is not handed an empty list.
C40_NoSpecificationLost ==
    /\ xpPc \in {"flatten_replicas", "returned", "ValueError"} =>
          /\ Len(xpMatrices) >= Len(xpGlobals)
          /\ \A i \in 1..Len(xpGlobals) :
                xpGlobals[i].id # << >> =>
                    \E j \in 1..Len(xpMatrices) :
                        ExpandedFrom(xpMatrices[j], xpGlobals[i])
    /\ xpPc # "ValueError"

====
